---- MODULE Spec2Model ----
(***************************************************************************)
(* Model of the file-operations component: the path validator and its      *)
(* SecurityContext (tinygo/security.go), the primitive executor            *)
(* (tinygo/operations.go), the JSON batch processor and the workspace      *)
(* orchestrator.                                                           *)
(*                                                                         *)
(* A path is a sequence of chunks: the characters "/" and "." are chunks of *)
(* their own and every other chunk is a run of name characters holding     *)
(* neither ("/", "workspace", "/", ".", ".", "/", "etc").  The lexical     *)
(* operations of path/filepath (Clean, Join, Dir, Base) and of strings     *)
(* (HasPrefix, Contains) are computed chunk by chunk.                      *)
(***************************************************************************)
EXTENDS Integers, Sequences, FiniteSets, TLC

VARIABLES
    currentSecurityContext, \* the process-wide SecurityContext
    fs,                     \* the filesystem: absolute cleaned path -> "dir" or a file content
    call,                   \* the entry point invoked last, with its arguments
    result,                 \* what that invocation returned
    trace,                  \* the validations and filesystem calls it made, in order
    calls                   \* number of executor/orchestrator invocations so far

vars == <<currentSecurityContext, fs, call, result, trace, calls>>

----------------------------------------------------------------------------
(* Bounds *)

MaxCalls == 1          \* executor/orchestrator invocations per behaviour
MaxOps == 2            \* operations per batch document
MaxPreopen == 1        \* entries per ConfigurePreopenDirs list
MaxRestrictions == 4   \* cap on the ever-growing Restrictions list
MaxPackPtr == 7        \* the small buffer addresses given to packPtrLen
MaxPackLen == 7        \* the small lengths given to packPtrLen
MaxPathLen == 3        \* length of the exhaustively enumerated validator inputs

----------------------------------------------------------------------------
(* strings *)

Nil == "nil"

\* The(S) is the element of the singleton S; The({e : x \in {v}}) is e with x
\* standing for the value of v
The(S) == CHOOSE x \in S : TRUE

HasPrefix(s, p) == Len(p) <= Len(s) /\ SubSeq(s, 1, Len(p)) = p

HasSuffix(s, p) == Len(p) <= Len(s) /\ SubSeq(s, Len(s) - Len(p) + 1, Len(s)) = p

Contains(s, sub) ==
    \E i \in 1..(Len(s) - Len(sub) + 1) : SubSeq(s, i, i + Len(sub) - 1) = sub

\* index of the first "/" of s, 0 when there is none
IndexSep(s) ==
    IF \E i \in 1..Len(s) : s[i] = "/"
    THEN CHOOSE i \in 1..Len(s) : s[i] = "/" /\ \A j \in 1..(i - 1) : s[j] # "/"
    ELSE 0

\* index of the last "/" of s, 0 when there is none
LastIndexSep(s) ==
    IF \E i \in 1..Len(s) : s[i] = "/"
    THEN CHOOSE i \in 1..Len(s) : s[i] = "/" /\ \A j \in (i + 1)..Len(s) : s[j] # "/"
    ELSE 0

RECURSIVE Split(_)
\* strings.Split(s, "/")
Split(s) ==
    LET i == IndexSep(s)
    IN  IF i = 0 THEN <<s>>
        ELSE <<SubSeq(s, 1, i - 1)>> \o Split(SubSeq(s, i + 1, Len(s)))

RECURSIVE JoinSep(_)
\* strings.Join(elems, "/")
JoinSep(elems) ==
    IF Len(elems) = 0 THEN <<>>
    ELSE IF Len(elems) = 1 THEN elems[1]
    ELSE elems[1] \o <<"/">> \o JoinSep(Tail(elems))

----------------------------------------------------------------------------
(* path/filepath *)

DotDot == <<".", ".">>

RECURSIVE CleanSegs(_, _, _)
\* the component loop of filepath.Clean: out is the stack of kept components
CleanSegs(segs, rooted, out) ==
    IF Len(segs) = 0 THEN out
    ELSE LET seg == Head(segs)
             next == IF seg = <<>> \/ seg = <<".">> THEN out
                     ELSE IF seg = DotDot
                          THEN IF Len(out) > 0 /\ out[Len(out)] # DotDot
                               THEN SubSeq(out, 1, Len(out) - 1)
                               ELSE IF rooted THEN out ELSE Append(out, DotDot)
                          ELSE Append(out, seg)
         IN  CleanSegs(Tail(segs), rooted, next)

Clean(path) ==
    LET Joined(rooted, out) ==
            IF rooted THEN <<"/">> \o JoinSep(out)
            ELSE IF Len(out) = 0 THEN <<".">> ELSE JoinSep(out)
    IN  IF Len(path) = 0 THEN <<".">>
        ELSE Joined(path[1] = "/", CleanSegs(Split(path), path[1] = "/", <<>>))

IsAbs(path) == HasPrefix(path, <<"/">>)

RECURSIVE DropEmpty(_)
DropEmpty(elems) ==
    IF Len(elems) = 0 THEN <<>>
    ELSE IF Head(elems) = <<>> THEN DropEmpty(Tail(elems))
    ELSE <<Head(elems)>> \o DropEmpty(Tail(elems))

\* filepath.Join: empty elements are ignored, the result is cleaned, and the
\* join of nothing but empty elements is the empty string
Join(elems) ==
    LET Kept(kept) == IF kept = <<>> THEN <<>> ELSE Clean(JoinSep(kept))
    IN  Kept(DropEmpty(elems))

Dir(path) == Clean(SubSeq(path, 1, LastIndexSep(path)))

RECURSIVE TrimSep(_)
TrimSep(path) ==
    IF Len(path) > 0 /\ path[Len(path)] = "/"
    THEN TrimSep(SubSeq(path, 1, Len(path) - 1))
    ELSE path

Base(path) ==
    LET Last(t, l) == IF l = Len(t) THEN <<"/">> ELSE SubSeq(t, l + 1, Len(t))
        Trimmed(t) == Last(t, LastIndexSep(t))
    IN  IF Len(path) = 0 THEN <<".">> ELSE Trimmed(TrimSep(path))

\* the working directory of the process, against which relative paths resolve
Cwd == <<"/", "src">>

Abs(path) == IF IsAbs(path) THEN Clean(path) ELSE Join(<<Cwd, path>>)

\* strings.ToLower on the chunks of the modelled alphabet
LowerOf(c) ==
    CASE c = "SECRET" -> "secret"
      [] c = "Private" -> "private"
      [] c = "SSH" -> "ssh"
      [] OTHER -> c

ToLower(s) == [i \in 1..Len(s) |-> LowerOf(s[i])]

----------------------------------------------------------------------------
(* tinygo/security.go *)

SecurityStandard == 0
SecurityHigh == 1
SecurityStrict == 2

SecurityLevels == {SecurityStandard, SecurityHigh, SecurityStrict}

AccessReadOnly == 0
AccessReadWrite == 1
AccessFull == 2

\* variant: only a leading ".." is recognised
containsPathTraversal_LeadingOnly(path) == HasPrefix(Clean(path), DotDot)

\* containsPathTraversal: the cleaned path is searched for the substring ".."
containsPathTraversal(path) == Contains(Clean(path), DotDot)

validatePathStandard(sc, path, allowedDirs) == Nil

\* variant: the SecurityContext is not consulted
validatePathHigh_AllowListOnly(sc, path, allowedDirs) ==
    IF Len(allowedDirs) > 0
       /\ ~\E i \in 1..Len(allowedDirs) : HasPrefix(Clean(path), Clean(allowedDirs[i]))
    THEN "not within allowed directories"
    ELSE Nil

\* variant: an entry admits only itself and what lies below it, component-wise
validatePathHigh_ComponentWise(sc, path, allowedDirs) ==
    LET Within(p, d) == p = d \/ HasPrefix(p, d \o <<"/">>)
    IN  IF Len(allowedDirs) > 0
           /\ ~\E i \in 1..Len(allowedDirs) : Within(Clean(path), Clean(allowedDirs[i]))
        THEN "not within allowed directories"
        ELSE IF Len(sc.AccessibleDirs) > 0
                /\ ~\E i \in 1..Len(sc.AccessibleDirs) :
                        Within(Clean(path), Clean(sc.AccessibleDirs[i]))
        THEN "not accessible in current security context"
        ELSE Nil

validatePathHigh(sc, path, allowedDirs) ==
    IF Len(allowedDirs) > 0
       /\ ~\E i \in 1..Len(allowedDirs) : HasPrefix(Clean(path), Clean(allowedDirs[i]))
    THEN "not within allowed directories"
    ELSE IF Len(sc.AccessibleDirs) > 0
            /\ ~\E i \in 1..Len(sc.AccessibleDirs) :
                    HasPrefix(Clean(path), Clean(sc.AccessibleDirs[i]))
    THEN "not accessible in current security context"
    ELSE Nil

SensitivePatterns == { <<"secret">>, <<"private">>, <<".", "ssh">> }

\* variant: the High checks are not repeated at Strict
validatePathStrict_StrictOnly(sc, path, allowedDirs) ==
    IF Len(allowedDirs) = 0
    THEN "strict security mode requires explicit allowed directories"
    ELSE IF \E pat \in SensitivePatterns : Contains(ToLower(Abs(path)), pat)
    THEN "path contains sensitive patterns"
    ELSE Nil

\* variant: the sensitive names are compared case-sensitively
validatePathStrict_CaseSensitive(sc, path, allowedDirs) ==
    LET AfterHigh(high) ==
            IF high # Nil THEN high
            ELSE IF Len(allowedDirs) = 0
            THEN "strict security mode requires explicit allowed directories"
            ELSE IF \E pat \in SensitivePatterns : Contains(Abs(path), pat)
            THEN "path contains sensitive patterns"
            ELSE Nil
    IN  AfterHigh(validatePathHigh(sc, path, allowedDirs))

\* variant: an empty allow-list is no restriction at Strict either
validatePathStrict_AllowListOptional(sc, path, allowedDirs) ==
    LET AfterHigh(high) ==
            IF high # Nil THEN high
            ELSE IF \E pat \in SensitivePatterns : Contains(ToLower(Abs(path)), pat)
            THEN "path contains sensitive patterns"
            ELSE Nil
    IN  AfterHigh(validatePathHigh(sc, path, allowedDirs))

validatePathStrict(sc, path, allowedDirs) ==
    LET AfterHigh(high) ==
            IF high # Nil THEN high
            ELSE IF Len(allowedDirs) = 0
            THEN "strict security mode requires explicit allowed directories"
            ELSE IF \E pat \in SensitivePatterns : Contains(ToLower(Abs(path)), pat)
            THEN "path contains sensitive patterns"
            ELSE Nil
    IN  AfterHigh(validatePathHigh(sc, path, allowedDirs))

\* ValidatePath, reading the SecurityContext sc
ValidatePath(sc, path, allowedDirs) ==
    IF containsPathTraversal(path) THEN "path contains path traversal attempts"
    ELSE IF sc.Level = SecurityStandard THEN validatePathStandard(sc, path, allowedDirs)
    ELSE IF sc.Level = SecurityHigh THEN validatePathHigh(sc, path, allowedDirs)
    ELSE IF sc.Level = SecurityStrict THEN validatePathStrict(sc, path, allowedDirs)
    ELSE "unknown security level"

isPathAccessible(sc, path) ==
    \/ \E i \in 1..Len(sc.AccessibleDirs) :
            HasPrefix(Clean(path), Clean(sc.AccessibleDirs[i]))
    \/ Len(sc.AccessibleDirs) = 0

isPathWritable(sc, path) == isPathAccessible(sc, path)

validateCopyOperation(sc, paths) ==
    IF Len(paths) < 2 THEN "copy operation requires source and destination paths"
    ELSE IF sc.Level >= SecurityHigh /\ ~isPathAccessible(sc, paths[1])
    THEN "source path not accessible"
    ELSE IF sc.Level >= SecurityHigh /\ ~isPathWritable(sc, paths[2])
    THEN "destination path not writable"
    ELSE Nil

validateCreateOperation(sc, paths) ==
    IF Len(paths) < 1 THEN "create operation requires path"
    ELSE IF sc.Level >= SecurityHigh /\ ~isPathWritable(sc, Dir(paths[1]))
    THEN "parent directory not writable"
    ELSE Nil

\* variant: no path is refused as a directory root
validateRemoveOperation_NoRoots(sc, paths) ==
    IF Len(paths) < 1 THEN "remove operation requires path" ELSE Nil

validateRemoveOperation(sc, paths) ==
    IF Len(paths) < 1 THEN "remove operation requires path"
    ELSE IF sc.Level >= SecurityStrict
            /\ (HasSuffix(paths[1], <<"/">>) \/ paths[1] = <<".">> \/ paths[1] = DotDot)
    THEN "removal of directory roots not allowed"
    ELSE Nil

validateCommandOperation(sc, paths) ==
    IF sc.Level >= SecurityHigh THEN "command execution restricted in high security mode"
    ELSE Nil

ValidateOperation(sc, operation, paths) ==
    IF \E i \in 1..Len(paths) : ValidatePath(sc, paths[i], sc.AccessibleDirs) # Nil
    THEN "operation failed path validation"
    ELSE IF operation \in {"copy_file", "copy_directory"} THEN validateCopyOperation(sc, paths)
    ELSE IF operation = "create_directory" THEN validateCreateOperation(sc, paths)
    ELSE IF operation = "remove_path" THEN validateRemoveOperation(sc, paths)
    ELSE IF operation = "run_command" THEN validateCommandOperation(sc, paths)
    ELSE "unknown operation"

\* the Restrictions entry that ConfigurePreopenDirs formats for one config
PermissionText(perm) ==
    CASE perm = AccessReadOnly -> <<": read-only">>
      [] perm = AccessReadWrite -> <<": read-write">>
      [] perm = AccessFull -> <<": full access">>

RECURSIVE PreopenRestrictions(_)
PreopenRestrictions(configs) ==
    IF Len(configs) = 0 THEN <<>>
    ELSE (IF Head(configs).Permissions \in {AccessReadOnly, AccessReadWrite, AccessFull}
          THEN <<Head(configs).VirtualPath \o PermissionText(Head(configs).Permissions)>>
          ELSE <<>>)
         \o PreopenRestrictions(Tail(configs))

\* variant: the virtual paths are stored in their cleaned form
ConfigurePreopenDirs_Cleaned(sc, configs) ==
    [sc EXCEPT !.AccessibleDirs = [i \in 1..Len(configs) |-> Clean(configs[i].VirtualPath)],
               !.Restrictions = PreopenRestrictions(configs)]

\* the SecurityContext after ConfigurePreopenDirs(configs)
ConfigurePreopenDirs(sc, configs) ==
    [sc EXCEPT !.AccessibleDirs = [i \in 1..Len(configs) |-> configs[i].VirtualPath],
               !.Restrictions = PreopenRestrictions(configs)]

\* variant: a level below the current one is ignored
SetSecurityLevel_RaiseOnly(sc, level) ==
    IF level < sc.Level THEN sc
    ELSE [sc EXCEPT !.Level = level,
                    !.Restrictions =
                        IF level = SecurityStandard
                        THEN << <<"basic path traversal protection">> >>
                        ELSE IF level = SecurityHigh
                        THEN @ \o << <<"directory access restrictions">>,
                                     <<"preopen directory enforcement">> >>
                        ELSE @ \o << <<"explicit allow-listing required">>,
                                     <<"sensitive path detection">> >>]

\* the SecurityContext after SetSecurityLevel(level)
SetSecurityLevel(sc, level) ==
    [sc EXCEPT !.Level = level,
               !.Restrictions =
                   IF level = SecurityStandard
                   THEN << <<"basic path traversal protection">> >>
                   ELSE IF level = SecurityHigh
                   THEN @ \o << <<"directory access restrictions">>,
                                <<"preopen directory enforcement">> >>
                   ELSE IF level = SecurityStrict
                   THEN @ \o << <<"explicit allow-listing required">>,
                                <<"sensitive path detection">> >>
                   ELSE @]

----------------------------------------------------------------------------
(* the host filesystem, as package os presents it.  There are no symbolic  *)
(* links and no permission failures; a path longer than PathMax is refused *)

PathMax == 12

EmptyContent == "empty"

IsDirIn(f, p) == p \in DOMAIN f /\ f[p] = "dir"

RECURSIVE Walk(_, _, _)
\* kernel path resolution: every component is looked up in an existing
\* directory; <<>> stands for the failure (ENOENT, ENOTDIR)
Walk(f, segs, cur) ==
    IF Len(segs) = 0 THEN cur
    ELSE IF ~IsDirIn(f, cur) THEN <<>>
    ELSE IF Head(segs) = <<>> \/ Head(segs) = <<".">> THEN Walk(f, Tail(segs), cur)
    ELSE IF Head(segs) = DotDot THEN Walk(f, Tail(segs), Dir(cur))
    ELSE Walk(f, Tail(segs), Join(<<cur, Head(segs)>>))

Resolve(f, path) ==
    IF Len(path) = 0 \/ Len(path) > PathMax THEN <<>>
    ELSE Walk(f, Split(path), IF IsAbs(path) THEN <<"/">> ELSE Cwd)

\* os.Stat succeeds
Exists(f, path) ==
    LET Found(t) == t # <<>> /\ t \in DOMAIN f
    IN  Found(Resolve(f, path))

\* os.Mkdir
OsMkdir(f, path) ==
    LET At(t) ==
            IF t # <<>> /\ t \notin DOMAIN f
            THEN [ok |-> TRUE,
                  fs |-> [q \in DOMAIN f \cup {t} |-> IF q = t THEN "dir" ELSE f[q]]]
            ELSE [ok |-> FALSE, fs |-> f]
    IN  At(Resolve(f, path))

RECURSIVE OsMkdirAll(_, _)
\* os.MkdirAll: stat, then the parent first, then Mkdir of the path itself
OsMkdirAll(f, path) ==
    IF Exists(f, path) THEN [ok |-> IsDirIn(f, Resolve(f, path)), fs |-> f]
    ELSE The({
        IF ~parent.ok THEN parent
        ELSE The({
            IF made.ok THEN made
            ELSE [ok |-> IsDirIn(parent.fs, Resolve(parent.fs, path)), fs |-> parent.fs] :
            made \in {OsMkdir(parent.fs, path)} }) :
        parent \in {The({
            IF LastIndexSep(t) > 1 THEN OsMkdirAll(f, SubSeq(t, 1, LastIndexSep(t) - 1))
            ELSE [ok |-> TRUE, fs |-> f] :
            t \in {TrimSep(path)} })} })

\* os.Create: create or truncate
OsCreate(f, path) ==
    LET At(t) ==
            IF t # <<>> /\ ~IsDirIn(f, t)
            THEN [ok |-> TRUE,
                  fs |-> [q \in DOMAIN f \cup {t} |-> IF q = t THEN EmptyContent ELSE f[q]]]
            ELSE [ok |-> FALSE, fs |-> f]
    IN  At(Resolve(f, path))

\* os.WriteFile
OsWriteFile(f, path, data) ==
    LET At(t) ==
            IF t # <<>> /\ ~IsDirIn(f, t)
            THEN [ok |-> TRUE,
                  fs |-> [q \in DOMAIN f \cup {t} |-> IF q = t THEN data ELSE f[q]]]
            ELSE [ok |-> FALSE, fs |-> f]
    IN  At(Resolve(f, path))

\* the order of the chunks, as the byte order of their first characters
ChunkOrder ==
    << "-evil", ".", "/", "Private", "SECRET", "SSH", "bindings", "component.wit",
       "etc", "go.mod", "include", "main.cpp", "missing.cpp", "out", "output.txt",
       "package.json", "passwd", "private", "secret", "src", "ssh", "types.h",
       "workspace" >>

Rank(c) == CHOOSE i \in 1..Len(ChunkOrder) : ChunkOrder[i] = c

RECURSIVE LessName(_, _)
LessName(a, b) ==
    IF Len(b) = 0 THEN FALSE
    ELSE IF Len(a) = 0 THEN TRUE
    ELSE IF Head(a) = Head(b) THEN LessName(Tail(a), Tail(b))
    ELSE Rank(Head(a)) < Rank(Head(b))

RECURSIVE SortNames(_)
SortNames(S) ==
    IF S = {} THEN <<>>
    ELSE LET m == CHOOSE x \in S : \A y \in S : x = y \/ LessName(x, y)
         IN  <<m>> \o SortNames(S \ {m})

\* os.ReadDir of an existing directory: the names of its entries, sorted
OsReadDir(f, path) ==
    LET In(d) == SortNames({Base(q) : q \in {r \in DOMAIN f : r # d /\ Dir(r) = d}})
    IN  In(Resolve(f, path))

----------------------------------------------------------------------------
(* tinygo/operations.go.  An operation maps the SecurityContext sc and the *)
(* filesystem f to the filesystem it leaves, its error (Nil for success)   *)
(* and the sequence tr of the validations and os calls it made.            *)

\* idx is the index of the batch operation an event belongs to, -1 outside one
Ev(kind, path, ok) == [ev |-> kind, path |-> path, ok |-> ok, idx |-> -1]

Ret(f, err, tr) == [fs |-> f, err |-> err, tr |-> tr]

\* the outcome r of a step that ran after the events tr
After(tr, r) == Ret(r.fs, r.err, tr \o r.tr)

CopyFile(sc, f, src, dest) ==
    IF ValidatePath(sc, dest, <<>>) # Nil
    THEN Ret(f, "security validation failed", <<Ev("validate", dest, FALSE)>>)
    ELSE The({
        LET t2 == <<Ev("validate", dest, TRUE), Ev("mkdirall", destDir, m.ok)>>
        IN  IF ~m.ok THEN Ret(m.fs, "failed to create destination directory", t2)
            ELSE The({
                LET t3 == t2 \o <<Ev("open", src, srcT # <<>> /\ srcT \in DOMAIN m.fs)>>
                    t4 == t3 \o <<Ev("create", dest, c.ok)>>
                IN  IF srcT = <<>> \/ srcT \notin DOMAIN m.fs
                    THEN Ret(m.fs, "failed to open source file", t3)
                    ELSE IF ~c.ok THEN Ret(m.fs, "failed to create destination file", t4)
                    ELSE IF IsDirIn(c.fs, srcT)
                    THEN Ret(c.fs, "failed to copy file contents", t4)
                    ELSE Ret([c.fs EXCEPT ![destT] = c.fs[srcT]], Nil, t4) :
                srcT \in {Resolve(m.fs, src)}, destT \in {Resolve(m.fs, dest)},
                c \in {OsCreate(m.fs, dest)} }) :
        destDir \in {Dir(dest)}, m \in {OsMkdirAll(f, Dir(dest))} })

RECURSIVE copyDirectoryContents(_, _, _, _)
RECURSIVE copyEntries(_, _, _, _, _)

\* the loop of copyDirectoryContents, not descending into subdirectories
copyEntries_Shallow(sc, f, src, dest, entries) ==
    IF Len(entries) = 0 THEN Ret(f, Nil, <<>>)
    ELSE The({
        IF one.err # Nil THEN one
        ELSE After(one.tr, copyEntries(sc, one.fs, src, dest, Tail(entries))) :
        one \in {The({
            IF IsDirIn(f, Resolve(f, srcPath))
            THEN The({
                IF ~m.ok
                THEN Ret(m.fs, "failed to create subdirectory",
                         <<Ev("mkdirall", destPath, FALSE)>>)
                ELSE Ret(m.fs, Nil, <<Ev("mkdirall", destPath, TRUE)>>) :
                m \in {OsMkdirAll(f, destPath)} })
            ELSE The({
                IF cp.err # Nil THEN Ret(cp.fs, "failed to copy file", cp.tr) ELSE cp :
                cp \in {CopyFile(sc, f, srcPath, destPath)} }) :
            srcPath \in {Join(<<src, Head(entries)>>)},
            destPath \in {Join(<<dest, Head(entries)>>)} })} })

\* the loop of copyDirectoryContents over the entries read from src
copyEntries(sc, f, src, dest, entries) ==
    IF Len(entries) = 0 THEN Ret(f, Nil, <<>>)
    ELSE The({
        IF one.err # Nil THEN one
        ELSE After(one.tr, copyEntries(sc, one.fs, src, dest, Tail(entries))) :
        one \in {The({
            IF IsDirIn(f, Resolve(f, srcPath))
            THEN The({
                IF ~m.ok
                THEN Ret(m.fs, "failed to create subdirectory",
                         <<Ev("mkdirall", destPath, FALSE)>>)
                ELSE After(<<Ev("mkdirall", destPath, TRUE)>>,
                           copyDirectoryContents(sc, m.fs, srcPath, destPath)) :
                m \in {OsMkdirAll(f, destPath)} })
            ELSE The({
                IF cp.err # Nil THEN Ret(cp.fs, "failed to copy file", cp.tr) ELSE cp :
                cp \in {CopyFile(sc, f, srcPath, destPath)} }) :
            srcPath \in {Join(<<src, Head(entries)>>)},
            destPath \in {Join(<<dest, Head(entries)>>)} })} })

copyDirectoryContents(sc, f, src, dest) ==
    IF ~IsDirIn(f, Resolve(f, src))
    THEN Ret(f, "failed to read source directory", <<Ev("readdir", src, FALSE)>>)
    ELSE After(<<Ev("readdir", src, TRUE)>>,
               copyEntries(sc, f, src, dest, OsReadDir(f, src)))

CopyDirectory(sc, f, src, dest) ==
    IF ValidatePath(sc, dest, <<>>) # Nil
    THEN Ret(f, "security validation failed", <<Ev("validate", dest, FALSE)>>)
    ELSE IF ~Exists(f, src)
    THEN Ret(f, "source directory does not exist", <<Ev("validate", dest, TRUE)>>)
    ELSE IF ~IsDirIn(f, Resolve(f, src))
    THEN Ret(f, "source is not a directory", <<Ev("validate", dest, TRUE)>>)
    ELSE The({
        IF ~m.ok
        THEN Ret(m.fs, "failed to create destination directory",
                 <<Ev("validate", dest, TRUE), Ev("mkdirall", dest, FALSE)>>)
        ELSE After(<<Ev("validate", dest, TRUE), Ev("mkdirall", dest, TRUE)>>,
                   copyDirectoryContents(sc, m.fs, src, dest)) :
        m \in {OsMkdirAll(f, dest)} })

CreateDirectory(sc, f, path) ==
    IF ValidatePath(sc, path, <<>>) # Nil
    THEN Ret(f, "security validation failed", <<Ev("validate", path, FALSE)>>)
    ELSE The({
        IF ~m.ok
        THEN Ret(m.fs, "failed to create directory",
                 <<Ev("validate", path, TRUE), Ev("mkdirall", path, FALSE)>>)
        ELSE Ret(m.fs, Nil, <<Ev("validate", path, TRUE), Ev("mkdirall", path, TRUE)>>) :
        m \in {OsMkdirAll(f, path)} })

\* endsWithDot of os.RemoveAll: the path is "." or ends in "/."
endsWithDot(path) ==
    \/ path = <<".">>
    \/ Len(path) >= 2 /\ path[Len(path)] = "." /\ path[Len(path) - 1] = "/"

\* a component of path before the last one is a regular file (ENOTDIR)
ThroughFile(f, path) ==
    \E k \in 1..(Len(path) - 1) :
        /\ path[k + 1] = "/"
        /\ Resolve(f, SubSeq(path, 1, k)) \in DOMAIN f
        /\ ~IsDirIn(f, Resolve(f, SubSeq(path, 1, k)))

\* os.RemoveAll: nothing to do for the empty path, EINVAL for a path ending in
\* a dot, success for a missing path, else the entry and all below it go.
\* For a path through a regular file the implementation that walks from the
\* parent descriptor reports ENOTDIR and the one that uses Lstat reports
\* success; strict says which one is linked.
OsRemoveAll(f, path, strict) ==
    IF path = <<>> THEN [ok |-> TRUE, fs |-> f]
    ELSE IF endsWithDot(path) THEN [ok |-> FALSE, fs |-> f]
    ELSE IF ThroughFile(f, path) THEN [ok |-> ~strict, fs |-> f]
    ELSE The({
        IF t = <<>> \/ t \notin DOMAIN f THEN [ok |-> TRUE, fs |-> f]
        ELSE [ok |-> TRUE,
              fs |-> [q \in { r \in DOMAIN f : r # t /\ ~HasPrefix(r, t \o <<"/">>) }
                          |-> f[q]]] :
        t \in {Resolve(f, path)} })

\* RemovePath reporting a missing path as a failure
RemovePath_MissingFails(sc, f, path, strict) ==
    IF ValidatePath(sc, path, <<>>) # Nil
    THEN Ret(f, "security validation failed", <<Ev("validate", path, FALSE)>>)
    ELSE The({
        IF ~r.ok \/ ~Exists(f, path)
        THEN Ret(r.fs, "failed to remove path",
                 <<Ev("validate", path, TRUE), Ev("removeall", path, FALSE)>>)
        ELSE Ret(r.fs, Nil, <<Ev("validate", path, TRUE), Ev("removeall", path, TRUE)>>) :
        r \in {OsRemoveAll(f, path, strict)} })

RemovePath(sc, f, path, strict) ==
    IF ValidatePath(sc, path, <<>>) # Nil
    THEN Ret(f, "security validation failed", <<Ev("validate", path, FALSE)>>)
    ELSE The({
        IF ~r.ok
        THEN Ret(r.fs, "failed to remove path",
                 <<Ev("validate", path, TRUE), Ev("removeall", path, FALSE)>>)
        ELSE Ret(r.fs, Nil, <<Ev("validate", path, TRUE), Ev("removeall", path, TRUE)>>) :
        r \in {OsRemoveAll(f, path, strict)} })

\* the characters of a chunk of a file name
Chars(c) ==
    CASE c = "-evil" -> <<"-", "e", "v", "i", "l">>
      [] c = "." -> <<".">>
      [] c = "/" -> <<"/">>
      [] c = "Private" -> <<"P", "r", "i", "v", "a", "t", "e">>
      [] c = "SECRET" -> <<"S", "E", "C", "R", "E", "T">>
      [] c = "SSH" -> <<"S", "S", "H">>
      [] c = "bindings" -> <<"b", "i", "n", "d", "i", "n", "g", "s">>
      [] c = "component.wit" -> <<"c", "o", "m", "p", "o", "n", "e", "n", "t", ".", "w", "i", "t">>
      [] c = "etc" -> <<"e", "t", "c">>
      [] c = "go.mod" -> <<"g", "o", ".", "m", "o", "d">>
      [] c = "include" -> <<"i", "n", "c", "l", "u", "d", "e">>
      [] c = "main.cpp" -> <<"m", "a", "i", "n", ".", "c", "p", "p">>
      [] c = "missing.cpp" -> <<"m", "i", "s", "s", "i", "n", "g", ".", "c", "p", "p">>
      [] c = "out" -> <<"o", "u", "t">>
      [] c = "output.txt" -> <<"o", "u", "t", "p", "u", "t", ".", "t", "x", "t">>
      [] c = "package.json" -> <<"p", "a", "c", "k", "a", "g", "e", ".", "j", "s", "o", "n">>
      [] c = "passwd" -> <<"p", "a", "s", "s", "w", "d">>
      [] c = "private" -> <<"p", "r", "i", "v", "a", "t", "e">>
      [] c = "secret" -> <<"s", "e", "c", "r", "e", "t">>
      [] c = "src" -> <<"s", "r", "c">>
      [] c = "ssh" -> <<"s", "s", "h">>
      [] c = "types.h" -> <<"t", "y", "p", "e", "s", ".", "h">>
      [] c = "workspace" -> <<"w", "o", "r", "k", "s", "p", "a", "c", "e">>

RECURSIVE CharsOf(_)
\* the characters of a file name
CharsOf(name) ==
    IF Len(name) = 0 THEN <<>> ELSE Chars(Head(name)) \o CharsOf(Tail(name))

\* the characters of patterns and names in byte order
CharOrder ==
    << "*", "-", ".", "/", "?", "C", "E", "H", "P", "R", "S", "T",
       "[", "\\", "]", "^", "a", "b", "c", "d", "e", "f", "g", "h",
       "i", "j", "k", "l", "m", "n", "o", "p", "q", "r", "s", "t",
       "u", "v", "w", "x", "y", "z" >>

CharRank(c) == CHOOSE i \in 1..Len(CharOrder) : CharOrder[i] = c

BadPattern == [bad |-> TRUE, r |-> "", rest |-> <<>>, toks |-> <<>>]

\* getEsc of filepath.Match: one character of a class, possibly escaped; it
\* may be neither "-" nor "]" nor the last character of the pattern
getEsc(chunk) ==
    IF Len(chunk) = 0 \/ chunk[1] = "-" \/ chunk[1] = "]" THEN BadPattern
    ELSE IF chunk[1] = "\\"
    THEN IF Len(chunk) <= 2 THEN BadPattern
         ELSE [bad |-> FALSE, r |-> chunk[2], rest |-> SubSeq(chunk, 3, Len(chunk)),
               toks |-> <<>>]
    ELSE IF Len(chunk) = 1 THEN BadPattern
    ELSE [bad |-> FALSE, r |-> chunk[1], rest |-> Tail(chunk), toks |-> <<>>]

RECURSIVE scanRanges(_, _)
\* the ranges of a character class up to its closing bracket
scanRanges(chunk, ranges) ==
    IF Len(chunk) > 0 /\ chunk[1] = "]" /\ Len(ranges) > 0
    THEN [bad |-> FALSE, r |-> "", rest |-> Tail(chunk), toks |-> ranges]
    ELSE The({
        IF lo.bad THEN BadPattern
        ELSE IF lo.rest[1] = "-"
        THEN The({
            IF hi.bad THEN BadPattern
            ELSE scanRanges(hi.rest, Append(ranges, <<lo.r, hi.r>>)) :
            hi \in {getEsc(Tail(lo.rest))} })
        ELSE scanRanges(lo.rest, Append(ranges, <<lo.r, lo.r>>)) :
        lo \in {getEsc(chunk)} })

RECURSIVE scanPattern(_)
\* the terms of a pattern: star, any single character, a class, a literal
scanPattern(pattern) ==
    LET Then(tok, rest) ==
            The({ IF t.bad THEN BadPattern
                  ELSE [bad |-> FALSE, r |-> "", rest |-> <<>>, toks |-> <<tok>> \o t.toks] :
                  t \in {scanPattern(rest)} })
        Term(k, c, neg, ranges) == [k |-> k, c |-> c, neg |-> neg, ranges |-> ranges]
    IN  IF Len(pattern) = 0
        THEN [bad |-> FALSE, r |-> "", rest |-> <<>>, toks |-> <<>>]
        ELSE IF Head(pattern) = "*" THEN Then(Term("star", "", FALSE, <<>>), Tail(pattern))
        ELSE IF Head(pattern) = "?" THEN Then(Term("any", "", FALSE, <<>>), Tail(pattern))
        ELSE IF Head(pattern) = "\\"
        THEN IF Len(pattern) = 1 THEN BadPattern
             ELSE Then(Term("lit", pattern[2], FALSE, <<>>),
                       SubSeq(pattern, 3, Len(pattern)))
        ELSE IF Head(pattern) = "["
        THEN The({
            IF cl.bad THEN BadPattern
            ELSE Then(Term("class", "", neg, cl.toks), cl.rest) :
            neg \in {Len(pattern) > 1 /\ pattern[2] = "^"},
            cl \in {scanRanges(IF Len(pattern) > 1 /\ pattern[2] = "^"
                               THEN SubSeq(pattern, 3, Len(pattern))
                               ELSE Tail(pattern), <<>>)} })
        ELSE Then(Term("lit", Head(pattern), FALSE, <<>>), Tail(pattern))

RECURSIVE matchTerms(_, _)
\* the terms match the whole of s; star and "?" do not match a separator
matchTerms(toks, s) ==
    IF Len(toks) = 0 THEN Len(s) = 0
    ELSE IF Head(toks).k = "star"
    THEN \E n \in 0..Len(s) :
             /\ \A j \in 1..n : s[j] # "/"
             /\ matchTerms(Tail(toks), SubSeq(s, n + 1, Len(s)))
    ELSE /\ Len(s) > 0
         /\ CASE Head(toks).k = "any" -> s[1] # "/"
              [] Head(toks).k = "lit" -> s[1] = Head(toks).c
              [] Head(toks).k = "class" ->
                     (\E i \in 1..Len(Head(toks).ranges) :
                          /\ CharRank(Head(toks).ranges[i][1]) <= CharRank(s[1])
                          /\ CharRank(s[1]) <= CharRank(Head(toks).ranges[i][2]))
                         # Head(toks).neg
         /\ matchTerms(Tail(toks), Tail(s))

\* filepath.Match: a malformed pattern is an error whatever the name is
Match(pattern, name) ==
    The({ [err |-> t.bad, matched |-> ~t.bad /\ matchTerms(t.toks, name)] :
          t \in {scanPattern(pattern)} })

NoPattern == [given |-> FALSE, glob |-> <<>>]

RECURSIVE matchEntries(_, _)
\* the loop of ListDirectory over the entries read: Match is called once for
\* each entry and the first error ends the loop
matchEntries(entries, pattern) ==
    IF Len(entries) = 0 THEN [err |-> Nil, names |-> <<>>]
    ELSE The({
        IF pattern.given /\ m.err THEN [err |-> "invalid pattern", names |-> <<>>]
        ELSE The({
            IF rest.err # Nil THEN rest
            ELSE IF pattern.given /\ ~m.matched THEN rest
            ELSE [err |-> Nil, names |-> <<Head(entries)>> \o rest.names] :
            rest \in {matchEntries(Tail(entries), pattern)} }) :
        m \in {Match(pattern.glob, CharsOf(Head(entries)))} })

\* ListDirectory(dir, pattern): the names it returns are in field names
ListDirectory(sc, f, dir, pattern) ==
    IF ValidatePath(sc, dir, <<>>) # Nil
    THEN [fs |-> f, err |-> "security validation failed",
          tr |-> <<Ev("validate", dir, FALSE)>>, names |-> <<>>]
    ELSE IF ~IsDirIn(f, Resolve(f, dir))
    THEN [fs |-> f, err |-> "failed to read directory",
          tr |-> <<Ev("validate", dir, TRUE), Ev("readdir", dir, FALSE)>>, names |-> <<>>]
    ELSE The({
        [fs |-> f, err |-> l.err,
         tr |-> <<Ev("validate", dir, TRUE), Ev("readdir", dir, TRUE)>>,
         names |-> l.names] :
        l \in {matchEntries(OsReadDir(f, dir), pattern)} })

----------------------------------------------------------------------------
(* JSON batch processing.  A document is either unparseable or decodes to  *)
(* a JsonConfig; a field absent from the JSON text decodes to the empty    *)
(* string.                                                                 *)

Unparseable == [parses |-> FALSE, WorkspaceDir |-> <<>>, Operations |-> <<>>]

NoWorkspaceInfo == [PreparedFiles |-> <<>>, WorkspacePath |-> <<>>, Message |-> <<>>]

validateOperation_CommandOptional(op, index) ==
    IF op.Type = "copy_file" \/ op.Type = "copy_directory_contents"
    THEN IF op.SrcPath = <<>> \/ op.DestPath = <<>> THEN "requires src_path and dest_path"
         ELSE IF ~IsAbs(op.SrcPath) THEN "src_path must be absolute"
         ELSE IF IsAbs(op.DestPath) THEN "dest_path must be relative"
         ELSE Nil
    ELSE IF op.Type = "mkdir"
    THEN IF op.Path = <<>> THEN "mkdir requires path"
         ELSE IF IsAbs(op.Path) THEN "mkdir path must be relative"
         ELSE Nil
    ELSE IF op.Type = "run_command" THEN Nil
    ELSE "unknown operation type"

validateOperation(op, index) ==
    IF op.Type = "copy_file" \/ op.Type = "copy_directory_contents"
    THEN IF op.SrcPath = <<>> \/ op.DestPath = <<>> THEN "requires src_path and dest_path"
         ELSE IF ~IsAbs(op.SrcPath) THEN "src_path must be absolute"
         ELSE IF IsAbs(op.DestPath) THEN "dest_path must be relative"
         ELSE Nil
    ELSE IF op.Type = "mkdir"
    THEN IF op.Path = <<>> THEN "mkdir requires path"
         ELSE IF IsAbs(op.Path) THEN "mkdir path must be relative"
         ELSE Nil
    ELSE IF op.Type = "run_command"
    THEN IF op.Command = "" THEN "run_command requires command" ELSE Nil
    ELSE "unknown operation type"

\* err is Nil or the first failure; index is the offending operation, -1 for
\* a failure of the document itself
validateJsonConfig(config) ==
    IF config.WorkspaceDir = <<>>
    THEN [err |-> "workspace_dir cannot be empty", index |-> -1]
    ELSE IF ~IsAbs(config.WorkspaceDir)
    THEN [err |-> "workspace_dir must be an absolute path", index |-> -1]
    ELSE IF \E i \in 1..Len(config.Operations) :
                validateOperation(config.Operations[i], i - 1) # Nil
    THEN LET i == CHOOSE k \in 1..Len(config.Operations) :
                      /\ validateOperation(config.Operations[k], k - 1) # Nil
                      /\ \A j \in 1..(k - 1) :
                             validateOperation(config.Operations[j], j - 1) = Nil
         IN  [err |-> validateOperation(config.Operations[i], i - 1), index |-> i - 1]
    ELSE [err |-> Nil, index |-> -1]

ValidateJsonConfig(doc) ==
    IF ~doc.parses THEN [err |-> "failed to parse JSON config", index |-> -1]
    ELSE validateJsonConfig(doc)

\* the programs of the host: echo exits 0 and prints, anything else fails
CommandSucceeds(cmd) == cmd = "echo"

CommandOutput == "command output"

RetFiles(f, err, tr, files) == [fs |-> f, err |-> err, tr |-> tr, files |-> files]

executeJsonCopyFile(sc, f, op, workspaceDir) ==
    The({ The({ IF r.err # Nil THEN RetFiles(r.fs, r.err, r.tr, <<>>)
                ELSE RetFiles(r.fs, Nil, r.tr, <<dest>>) :
                r \in {CopyFile(sc, f, op.SrcPath, dest)} }) :
          dest \in {Join(<<workspaceDir, op.DestPath>>)} })

\* variant: the created directory is not reported
executeJsonMkdir_Unlisted(sc, f, op, workspaceDir) ==
    The({ The({ IF r.err # Nil THEN RetFiles(r.fs, r.err, r.tr, <<>>)
                ELSE RetFiles(r.fs, Nil, r.tr, <<>>) :
                r \in {CreateDirectory(sc, f, path)} }) :
          path \in {Join(<<workspaceDir, op.Path>>)} })

executeJsonMkdir(sc, f, op, workspaceDir) ==
    The({ The({ IF r.err # Nil THEN RetFiles(r.fs, r.err, r.tr, <<>>)
                ELSE RetFiles(r.fs, Nil, r.tr, <<path>>) :
                r \in {CreateDirectory(sc, f, path)} }) :
          path \in {Join(<<workspaceDir, op.Path>>)} })

executeJsonCopyDirectoryContents(sc, f, op, workspaceDir) ==
    The({ The({
              IF r.err # Nil THEN RetFiles(r.fs, r.err, r.tr, <<>>)
              ELSE The({
                  IF l.err # Nil THEN RetFiles(r.fs, Nil, r.tr \o l.tr, <<dest>>)
                  ELSE RetFiles(r.fs, Nil, r.tr \o l.tr,
                                [i \in 1..Len(l.names) |-> Join(<<dest, l.names[i]>>)]) :
                  l \in {ListDirectory(sc, r.fs, dest, NoPattern)} }) :
              r \in {CopyDirectory(sc, f, op.SrcPath, dest)} }) :
          dest \in {Join(<<workspaceDir, op.DestPath>>)} })

executeJsonRunCommand(sc, f, op, workspaceDir) ==
    LET workDir == IF op.WorkDir = <<>> THEN workspaceDir
                   ELSE IF IsAbs(op.WorkDir) THEN op.WorkDir
                   ELSE Join(<<workspaceDir, op.WorkDir>>)
        ran == CommandSucceeds(op.Command)
        spawn == <<Ev("spawn", workDir, ran)>>
    IN  IF op.OutputFile # <<>>
        THEN The({ The({
                 IF d.err # Nil
                 THEN RetFiles(d.fs, "failed to create output directory", d.tr, <<>>)
                 ELSE IF ~ran THEN RetFiles(d.fs, "command failed", d.tr \o spawn, <<>>)
                 ELSE The({
                     IF ~w.ok
                     THEN RetFiles(d.fs, "failed to write output file",
                                   d.tr \o spawn \o <<Ev("write", outputPath, FALSE)>>, <<>>)
                     ELSE RetFiles(w.fs, Nil,
                                   d.tr \o spawn \o <<Ev("write", outputPath, TRUE)>>,
                                   <<outputPath>>) :
                     w \in {OsWriteFile(d.fs, outputPath, CommandOutput)} }) :
                 d \in {CreateDirectory(sc, f, Dir(outputPath))} }) :
             outputPath \in {Join(<<workspaceDir, op.OutputFile>>)} })
        ELSE IF ~ran THEN RetFiles(f, "command failed", spawn, <<>>)
        ELSE RetFiles(f, Nil, spawn, <<>>)

executeJsonOperation(sc, f, op, workspaceDir) ==
    IF op.Type = "copy_file" THEN executeJsonCopyFile(sc, f, op, workspaceDir)
    ELSE IF op.Type = "mkdir" THEN executeJsonMkdir(sc, f, op, workspaceDir)
    ELSE IF op.Type = "copy_directory_contents"
    THEN executeJsonCopyDirectoryContents(sc, f, op, workspaceDir)
    ELSE IF op.Type = "run_command" THEN executeJsonRunCommand(sc, f, op, workspaceDir)
    ELSE RetFiles(f, "unsupported operation type", <<>>, <<>>)

\* the events of operation i, closed by the marker of its outcome
Tagged(tr, i, ok) ==
    [k \in 1..Len(tr) |-> [tr[k] EXCEPT !.idx = i]]
        \o <<[ev |-> "op", path |-> <<>>, ok |-> ok, idx |-> i]>>

RECURSIVE executeOperations_Continue(_, _, _, _, _, _)
\* variant: a failing operation is recorded and the loop goes on
executeOperations_Continue(sc, f, config, i, preparedFiles, tr) ==
    IF i >= Len(config.Operations)
    THEN [fs |-> f, err |-> Nil, index |-> -1, tr |-> tr,
          value |-> [PreparedFiles |-> preparedFiles,
                     WorkspacePath |-> config.WorkspaceDir,
                     Message |-> <<"Successfully processed operations",
                                   Len(config.Operations)>>]]
    ELSE The({
        executeOperations_Continue(sc, r.fs, config, i + 1, preparedFiles \o r.files,
             tr \o Tagged(r.tr, i, r.err = Nil)) :
        r \in {executeJsonOperation(sc, f, config.Operations[i + 1],
                                    config.WorkspaceDir)} })

RECURSIVE executeOperations_KeepPartial(_, _, _, _, _, _)
\* variant: the paths produced before the failure are returned with the error
executeOperations_KeepPartial(sc, f, config, i, preparedFiles, tr) ==
    IF i >= Len(config.Operations)
    THEN [fs |-> f, err |-> Nil, index |-> -1, tr |-> tr,
          value |-> [PreparedFiles |-> preparedFiles,
                     WorkspacePath |-> config.WorkspaceDir,
                     Message |-> <<"Successfully processed operations",
                                   Len(config.Operations)>>]]
    ELSE The({
        IF r.err # Nil
        THEN [fs |-> r.fs, err |-> "operation failed", index |-> i,
              tr |-> tr \o Tagged(r.tr, i, FALSE),
              value |-> [PreparedFiles |-> preparedFiles,
                         WorkspacePath |-> config.WorkspaceDir, Message |-> <<>>]]
        ELSE executeOperations_KeepPartial(sc, r.fs, config, i + 1, preparedFiles \o r.files,
                  tr \o Tagged(r.tr, i, TRUE)) :
        r \in {executeJsonOperation(sc, f, config.Operations[i + 1],
                                    config.WorkspaceDir)} })

RECURSIVE executeOperations(_, _, _, _, _, _)
\* the loop of ProcessJsonConfig from operation i (0-based) on
executeOperations(sc, f, config, i, preparedFiles, tr) ==
    IF i >= Len(config.Operations)
    THEN [fs |-> f, err |-> Nil, index |-> -1, tr |-> tr,
          value |-> [PreparedFiles |-> preparedFiles,
                     WorkspacePath |-> config.WorkspaceDir,
                     Message |-> <<"Successfully processed operations",
                                   Len(config.Operations)>>]]
    ELSE The({
        IF r.err # Nil
        THEN [fs |-> r.fs, err |-> "operation failed", index |-> i,
              tr |-> tr \o Tagged(r.tr, i, FALSE),
              value |-> NoWorkspaceInfo]
        ELSE executeOperations(sc, r.fs, config, i + 1, preparedFiles \o r.files,
                  tr \o Tagged(r.tr, i, TRUE)) :
        r \in {executeJsonOperation(sc, f, config.Operations[i + 1],
                                    config.WorkspaceDir)} })

\* variant: the workspace directory is created before the document is validated
ProcessJsonConfig_CreateFirst(sc, f, doc) ==
    IF ~doc.parses
    THEN [fs |-> f, err |-> "failed to parse JSON config", index |-> -1,
          tr |-> <<>>, value |-> NoWorkspaceInfo]
    ELSE The({
        IF d.err # Nil
        THEN [fs |-> d.fs, err |-> "failed to create workspace directory", index |-> -1,
              tr |-> d.tr, value |-> NoWorkspaceInfo]
        ELSE IF v.err # Nil
        THEN [fs |-> d.fs, err |-> "invalid JSON config", index |-> v.index,
              tr |-> d.tr, value |-> NoWorkspaceInfo]
        ELSE executeOperations(sc, d.fs, doc, 0, <<>>, d.tr) :
        v \in {validateJsonConfig(doc)}, d \in {CreateDirectory(sc, f, doc.WorkspaceDir)} })

ProcessJsonConfig(sc, f, doc) ==
    IF ~doc.parses
    THEN [fs |-> f, err |-> "failed to parse JSON config", index |-> -1,
          tr |-> <<>>, value |-> NoWorkspaceInfo]
    ELSE The({
        IF v.err # Nil
        THEN [fs |-> f, err |-> "invalid JSON config", index |-> v.index,
              tr |-> <<>>, value |-> NoWorkspaceInfo]
        ELSE The({
            IF d.err # Nil
            THEN [fs |-> d.fs, err |-> "failed to create workspace directory",
                  index |-> -1, tr |-> d.tr, value |-> NoWorkspaceInfo]
            ELSE executeOperations(sc, d.fs, doc, 0, <<>>, d.tr) :
            d \in {CreateDirectory(sc, f, doc.WorkspaceDir)} }) :
        v \in {validateJsonConfig(doc)} })

----------------------------------------------------------------------------
(* workspace management *)

\* the name copyFileSpec gives the copy inside destDir
destNameOf(spec) ==
    LET Kept(destName, pathParts) ==
            IF spec.PreserveStructure /\ Contains(destName, <<"/">>) /\ Len(pathParts) >= 2
            THEN Join(SubSeq(pathParts, Len(pathParts) - 1, Len(pathParts)))
            ELSE destName
        Named(destName) == Kept(destName, Split(destName))
    IN  Named(IF spec.HasDestination THEN spec.Destination
              ELSE IF spec.PreserveStructure THEN spec.Source
              ELSE Base(spec.Source))

copyFileSpec(sc, f, spec, destDir) ==
    The({ The({ IF r.err # Nil THEN RetFiles(r.fs, r.err, r.tr, <<>>)
                ELSE RetFiles(r.fs, Nil, r.tr, <<destPath>>) :
                r \in {CopyFile(sc, f, spec.Source, destPath)} }) :
          destPath \in {Join(<<destDir, destNameOf(spec)>>)} })

RECURSIVE copyFileSpecs(_, _, _, _)
\* a loop copying the specs in order, stopping at the first failure
copyFileSpecs(sc, f, specs, destDir) ==
    IF Len(specs) = 0 THEN RetFiles(f, Nil, <<>>, <<>>)
    ELSE The({
        IF one.err # Nil THEN one
        ELSE The({
            RetFiles(rest.fs, rest.err, one.tr \o rest.tr, one.files \o rest.files) :
            rest \in {copyFileSpecs(sc, one.fs, Tail(specs), destDir)} }) :
        one \in {copyFileSpec(sc, f, Head(specs), destDir)} })

PackageJsonContent == "package.json content"

GoModContent == "module and go version"

SetupPackageJson(sc, f, config, workDir) ==
    The({ The({ IF ~w.ok
                THEN Ret(f, "failed to write package.json",
                         <<Ev("write", packagePath, FALSE)>>)
                ELSE Ret(w.fs, Nil, <<Ev("write", packagePath, TRUE)>>) :
                w \in {OsWriteFile(f, packagePath, PackageJsonContent)} }) :
          packagePath \in {Join(<<workDir, <<"package.json">>>>)} })

SetupGoModule(sc, f, config, workDir) ==
    The({
        IF srcs.err # Nil THEN Ret(srcs.fs, "failed to copy Go source", srcs.tr)
        ELSE The({
            IF mod.err # Nil THEN Ret(mod.fs, mod.err, srcs.tr \o mod.tr)
            ELSE IF ~config.HasWitFile THEN Ret(mod.fs, Nil, srcs.tr \o mod.tr)
            ELSE The({
                IF wit.err # Nil
                THEN Ret(wit.fs, "failed to copy WIT file", srcs.tr \o mod.tr \o wit.tr)
                ELSE Ret(wit.fs, Nil, srcs.tr \o mod.tr \o wit.tr) :
                wit \in {CopyFile(sc, mod.fs, config.WitFile,
                                  Join(<<workDir, <<"component.wit">>>>))} }) :
            mod \in {The({
                IF config.HasGoModFile
                THEN The({
                    IF cpMod.err # Nil
                    THEN Ret(cpMod.fs, "failed to copy go.mod", cpMod.tr)
                    ELSE cpMod :
                    cpMod \in {CopyFile(sc, srcs.fs, config.GoModFile, goModPath)} })
                ELSE The({
                    IF ~wrMod.ok
                    THEN Ret(srcs.fs, "failed to create go.mod",
                             <<Ev("write", goModPath, FALSE)>>)
                    ELSE Ret(wrMod.fs, Nil, <<Ev("write", goModPath, TRUE)>>) :
                    wrMod \in {OsWriteFile(srcs.fs, goModPath, GoModContent)} }) :
                goModPath \in {Join(<<workDir, <<"go.mod">>>>)} })} }) :
        srcs \in {copyFileSpecs(sc, f, config.Sources, workDir)} })

\* the outcome of PrepareWorkspace: sc is the SecurityContext it leaves
RetWorkspace(sc, f, err, tr, files, workDir) ==
    [sc |-> sc, fs |-> f, err |-> err, tr |-> tr, index |-> -1,
     value |-> IF err # Nil THEN NoWorkspaceInfo
               ELSE [PreparedFiles |-> files, WorkspacePath |-> workDir,
                     Message |-> <<"Successfully prepared workspace", Len(files)>>]]

\* the bindings step of PrepareWorkspace, after the file copies
copyBindingsDir(sc, f, config, tr, files) ==
    IF ~config.HasBindingsDir \/ ~Exists(f, config.BindingsDir)
    THEN RetWorkspace(sc, f, Nil, tr, files, config.WorkDir)
    ELSE The({
        IF b.err # Nil
        THEN RetWorkspace(sc, b.fs, "failed to copy bindings directory", tr \o b.tr,
                          <<>>, config.WorkDir)
        ELSE RetWorkspace(sc, b.fs, Nil, tr \o b.tr,
                          Append(files, config.WorkDir \o <<"/* (bindings)">>),
                          config.WorkDir) :
        b \in {CopyDirectory(sc, f, config.BindingsDir, config.WorkDir)} })

\* variant: the working directory is created before the level is applied
PrepareWorkspace_LevelAfterCreate(sc0, f, config) ==
    The({ The({
        IF d.err # Nil
        THEN RetWorkspace(sc, d.fs, "failed to create workspace directory", d.tr, <<>>,
                          config.WorkDir)
        ELSE The({
            IF srcs.err # Nil
            THEN RetWorkspace(sc, srcs.fs, "failed to copy source file", d.tr \o srcs.tr,
                              <<>>, config.WorkDir)
            ELSE The({
                IF hdrs.err # Nil
                THEN RetWorkspace(sc, hdrs.fs, "failed to copy header file",
                                  d.tr \o srcs.tr \o hdrs.tr, <<>>, config.WorkDir)
                ELSE The({
                    IF deps.err # Nil
                    THEN RetWorkspace(sc, deps.fs, "failed to copy dependency file",
                                      d.tr \o srcs.tr \o hdrs.tr \o deps.tr, <<>>,
                                      config.WorkDir)
                    ELSE copyBindingsDir(sc, deps.fs, config,
                                         d.tr \o srcs.tr \o hdrs.tr \o deps.tr,
                                         srcs.files \o hdrs.files \o deps.files) :
                    deps \in {copyFileSpecs(sc, hdrs.fs, config.Dependencies,
                                            config.WorkDir)} }) :
                hdrs \in {copyFileSpecs(sc, srcs.fs, config.Headers, config.WorkDir)} }) :
            srcs \in {copyFileSpecs(sc, d.fs, config.Sources, config.WorkDir)} }) :
        d \in {CreateDirectory(sc0, f, config.WorkDir)} }) :
      sc \in {IF config.HasSecurityConfig
              THEN SetSecurityLevel(sc0, config.SecurityConfig.Level)
              ELSE sc0} })

PrepareWorkspace(sc0, f, config) ==
    The({ The({
        IF d.err # Nil
        THEN RetWorkspace(sc, d.fs, "failed to create workspace directory", d.tr, <<>>,
                          config.WorkDir)
        ELSE The({
            IF srcs.err # Nil
            THEN RetWorkspace(sc, srcs.fs, "failed to copy source file", d.tr \o srcs.tr,
                              <<>>, config.WorkDir)
            ELSE The({
                IF hdrs.err # Nil
                THEN RetWorkspace(sc, hdrs.fs, "failed to copy header file",
                                  d.tr \o srcs.tr \o hdrs.tr, <<>>, config.WorkDir)
                ELSE The({
                    IF deps.err # Nil
                    THEN RetWorkspace(sc, deps.fs, "failed to copy dependency file",
                                      d.tr \o srcs.tr \o hdrs.tr \o deps.tr, <<>>,
                                      config.WorkDir)
                    ELSE copyBindingsDir(sc, deps.fs, config,
                                         d.tr \o srcs.tr \o hdrs.tr \o deps.tr,
                                         srcs.files \o hdrs.files \o deps.files) :
                    deps \in {copyFileSpecs(sc, hdrs.fs, config.Dependencies,
                                            config.WorkDir)} }) :
                hdrs \in {copyFileSpecs(sc, srcs.fs, config.Headers, config.WorkDir)} }) :
            srcs \in {copyFileSpecs(sc, d.fs, config.Sources, config.WorkDir)} }) :
        d \in {CreateDirectory(sc, f, config.WorkDir)} }) :
      sc \in {IF config.HasSecurityConfig
              THEN SetSecurityLevel(sc0, config.SecurityConfig.Level)
              ELSE sc0} })

----------------------------------------------------------------------------
(* the inputs the entry points are driven with *)

WS == <<"/", "workspace">>
ETC == <<"/", "etc">>
SRC == <<"/", "src">>
MainCpp == <<"/", "src", "/", "main.cpp">>
Passwd == <<"/", "etc", "/", "passwd">>
EscapeWS == <<"/", "workspace", "/", ".", ".", "/", "etc", "/", "passwd">>

InitFs ==
    [q \in { <<"/">>, SRC, MainCpp, <<"/", "src", "/", "include">>,
             <<"/", "src", "/", "include", "/", "types.h">>, ETC, Passwd }
        |-> IF q = MainCpp THEN "int main(){return 0;}"
            ELSE IF q = Passwd THEN "root:x:0:0"
            ELSE IF q = <<"/", "src", "/", "include", "/", "types.h">> THEN "typedef"
            ELSE "dir"]

SeqsUpTo(S, n) == UNION {[1..k -> S] : k \in 0..n}

\* validator inputs: every path of at most MaxPathLen chunks over a small
\* alphabet, and the paths named above
Alphabet == {"/", ".", "workspace", "etc"}

ValidatorPaths ==
    SeqsUpTo(Alphabet, MaxPathLen)
        \cup { EscapeWS, Passwd, <<"/", "workspace", "/", "main.cpp">>,
               <<"/", "workspace", "/", "a.txt">>, <<"/", "workspace", "/", "SECRET">>,
               <<"/", "workspace", "-evil", "/", "out">>,
               <<"/", "workspace", "/", ".", "ssh">> }

AllowLists == { <<>>, <<WS>>, <<ETC, WS>> }

PreopenConfigs ==
    { [HostPath |-> <<"/", "out">>, VirtualPath |-> WS, Permissions |-> AccessReadOnly],
      [HostPath |-> <<"/", "out">>, VirtualPath |-> ETC, Permissions |-> AccessFull] }

\* a preopen of the working directory, and one whose virtual path is not in
\* its cleaned form
PreopenDot ==
    [HostPath |-> <<"/", "src">>, VirtualPath |-> <<".">>, Permissions |-> AccessReadWrite]

PreopenUncleaned ==
    [HostPath |-> <<"/", "etc">>,
     VirtualPath |-> <<"/", "workspace", "/", ".", ".", "/", "etc">>,
     Permissions |-> AccessReadOnly]

\* every list of at most MaxPreopen of PreopenConfigs, and the two above alone
PreopenLists ==
    SeqsUpTo(PreopenConfigs, MaxPreopen) \cup { <<PreopenDot>>, <<PreopenUncleaned>> }

OperationNames == {"copy_file", "create_directory", "remove_path", "run_command", "zip"}

OperationPaths ==
    SeqsUpTo({ <<"/", "workspace", "/", "main.cpp">>, <<".">>, DotDot, <<>>,
               <<"/", "workspace", "/">> }, 1)
        \cup { <<MainCpp, <<"/", "workspace", "/", "main.cpp">>>>, <<Passwd, Passwd>> }

Op(type, src, dest, path, cmd, out) ==
    [Type |-> type, SrcPath |-> src, DestPath |-> dest, Path |-> path,
     Command |-> cmd, WorkDir |-> <<>>, OutputFile |-> out]

MkdirInclude == Op("mkdir", <<>>, <<>>, <<"include">>, "", <<>>)
MkdirEscape == Op("mkdir", <<>>, <<>>, <<".", ".", "/", "out">>, "", <<>>)
CopyMain == Op("copy_file", MainCpp, <<"main.cpp">>, <<>>, "", <<>>)
CopyMissing ==
    Op("copy_file", <<"/", "src", "/", "missing.cpp">>, <<"missing.cpp">>, <<>>, "", <<>>)
CopyTree ==
    Op("copy_directory_contents", <<"/", "src", "/", "include">>, <<"include">>, <<>>, "", <<>>)
RunEcho == Op("run_command", <<>>, <<>>, <<>>, "echo", <<"output.txt">>)
RunFalse == Op("run_command", <<>>, <<>>, <<>>, "false", <<>>)
UnknownOp == Op("zip", <<>>, <<>>, <<>>, "", <<>>)

MkdirAbsolute == Op("mkdir", <<>>, <<>>, <<"/", "etc", "/", "out">>, "", <<>>)
CopyRelativeSrc == Op("copy_file", <<"main.cpp">>, <<"main.cpp">>, <<>>, "", <<>>)
CopyAbsoluteDest == Op("copy_file", MainCpp, <<"/", "etc", "/", "out">>, <<>>, "", <<>>)
CopyNoDest == Op("copy_directory_contents", <<"/", "src", "/", "include">>, <<>>, <<>>, "", <<>>)
RunNoCommand == Op("run_command", <<>>, <<>>, <<>>, "", <<>>)

\* every operation list of at most MaxOps of these is submitted
OpChoices == { MkdirInclude, CopyMain, CopyMissing, RunEcho }

\* operations submitted alone and after a well-formed mkdir
IllFormedOps ==
    { UnknownOp, MkdirAbsolute, CopyRelativeSrc, CopyAbsoluteDest, CopyNoDest, RunNoCommand }

OtherOps == IllFormedOps \cup { MkdirEscape, CopyTree, RunFalse }

OperationLists ==
    SeqsUpTo(OpChoices, MaxOps)
        \cup { <<op>> : op \in OtherOps }
        \cup { <<MkdirInclude, op>> : op \in OtherOps }
        \cup { <<CopyTree, CopyMissing>> }

Docs ==
    { Unparseable,
      [parses |-> TRUE, WorkspaceDir |-> <<>>, Operations |-> <<MkdirInclude>>],
      [parses |-> TRUE, WorkspaceDir |-> <<"workspace">>, Operations |-> <<MkdirInclude>>] }
        \cup [parses : {TRUE}, WorkspaceDir : {WS}, Operations : OperationLists]

----------------------------------------------------------------------------
(* tinygo/wit_bindings.go: how a value is returned to the host.  A returned *)
(* string is a run of chunks; the allocator chooses the address of its      *)
(* buffer in the 32-bit linear memory.                                      *)

\* a name of 65488 characters: with it the traversal error of ValidatePath,
\* prefixed by encodeError, is 65536 bytes long
LongName == "x (65488 times)"

\* the number of bytes of a chunk
ChunkLen(c) ==
    CASE c = "path contains path traversal attempts: " -> 39
      [] c = "path " -> 5
      [] c = " not within allowed directories" -> 31
      [] c = " not accessible in current security context" -> 43
      [] c = "strict security mode requires explicit allowed directories" -> 58
      [] c = "path contains sensitive patterns: " -> 34
      [] c = "unknown security level" -> 22
      [] c = "unexpected end of JSON input" -> 28
      [] c = "ERROR: " -> 7
      [] c = "/" -> 1
      [] c = "." -> 1
      [] c = "a" -> 1
      [] c = "b" -> 1
      [] c = "workspace" -> 9
      [] c = "etc" -> 3
      [] c = "src" -> 3
      [] c = LongName -> 65488

RECURSIVE ByteLen(_)
\* len([]byte(s))
ByteLen(s) == IF Len(s) = 0 THEN 0 ELSE ChunkLen(Head(s)) + ByteLen(Tail(s))

\* a uint32 as its two 16-bit halves: the word hi * 2^16 + lo
Word(hi, lo) == [hi |-> hi, lo |-> lo]

Zero == Word(0, 0)

\* packPtrLen: (ptr << 16) | (length & 0xFFFF) on uint32.  The shift keeps
\* the low 16 bits of ptr as the high half of the word and drops the rest;
\* the mask keeps the low 16 bits of length as the low half.
packPtrLen(ptr, length) == Word(ptr % 65536, length % 65536)

\* the instance stops: an index out of range ends the export without a value
Faulted == [fault |-> TRUE, word |-> Zero, bytes |-> <<>>]

\* allocateMemory: make([]byte, size), then the address of bytes[0], which
\* does not exist when size is 0; addr is the address the allocator chose
allocateMemory(size, addr) ==
    IF size = 0 THEN [fault |-> TRUE, ptr |-> 0] ELSE [fault |-> FALSE, ptr |-> addr]

encodeString(s, addr) ==
    The({ IF m.fault THEN Faulted
          ELSE [fault |-> FALSE, word |-> packPtrLen(m.ptr, ByteLen(s)), bytes |-> s] :
          m \in {allocateMemory(ByteLen(s), addr)} })

encodeError(errMsg, addr) == encodeString(<<"ERROR: ">> \o errMsg, addr)

\* "return 0 // Success" of the exports that return a status
StatusSuccess == [fault |-> FALSE, word |-> Zero, bytes |-> <<>>]

\* err.Error() of an error of ValidatePath
ErrorText(err, path) ==
    CASE err = "path contains path traversal attempts" ->
             <<"path contains path traversal attempts: ">> \o path
      [] err = "not within allowed directories" ->
             <<"path ">> \o path \o <<" not within allowed directories">>
      [] err = "not accessible in current security context" ->
             <<"path ">> \o path \o <<" not accessible in current security context">>
      [] err = "strict security mode requires explicit allowed directories" ->
             <<"strict security mode requires explicit allowed directories">>
      [] err = "path contains sensitive patterns" ->
             <<"path contains sensitive patterns: ">> \o path
      [] OTHER -> <<"unknown security level">>

\* json.Unmarshal of text that is no JSON value
JsonSyntaxError == <<"unexpected end of JSON input">>

\* the export's outcome: what the callee returned and how it was encoded
Outcome(kind, e) ==
    [outcome |-> kind, fault |-> e.fault, word |-> e.word, bytes |-> e.bytes]

exportJoinPaths(input, addr) ==
    IF ~input.decodes THEN Outcome("error", encodeError(JsonSyntaxError, addr))
    ELSE Outcome("success", encodeString(Join(input.paths), addr))

exportGetDirname(path, addr) == Outcome("success", encodeString(Dir(path), addr))

exportGetBasename(path, addr) == Outcome("success", encodeString(Base(path), addr))

exportResolveAbsolutePath(path, addr) == Outcome("success", encodeString(Abs(path), addr))

exportValidatePath(sc, path, input, addr) ==
    IF ~input.decodes THEN Outcome("error", encodeError(JsonSyntaxError, addr))
    ELSE The({ IF err # Nil THEN Outcome("error", encodeError(ErrorText(err, path), addr))
               ELSE Outcome("success", StatusSuccess) :
               err \in {ValidatePath(sc, path, input.paths)} })

----------------------------------------------------------------------------
(* the state machine: one action per entry point *)

Returned(err, index, value) == [err |-> err, index |-> index, value |-> value]

Init ==
    /\ currentSecurityContext =
           [Level |-> SecurityStandard, AccessibleDirs |-> <<>>, Restrictions |-> <<>>]
    /\ fs = InitFs
    /\ call = [op |-> "none", args |-> <<>>]
    /\ result = Returned(Nil, -1, <<>>)
    /\ trace = <<>>
    /\ calls = 0

SetSecurityLevelCall ==
    \E level \in SecurityLevels :
        /\ level # SecurityStandard =>
               Len(currentSecurityContext.Restrictions) + 2 <= MaxRestrictions
        /\ currentSecurityContext' = SetSecurityLevel(currentSecurityContext, level)
        /\ call' = [op |-> "SetSecurityLevel", args |-> <<level>>]
        /\ result' = Returned(Nil, -1, <<>>)
        /\ trace' = <<>>
        /\ UNCHANGED <<fs, calls>>

ConfigurePreopenDirsCall ==
    \E configs \in PreopenLists :
        /\ currentSecurityContext' = ConfigurePreopenDirs(currentSecurityContext, configs)
        /\ call' = [op |-> "ConfigurePreopenDirs", args |-> <<configs>>]
        /\ result' = Returned(Nil, -1, <<>>)
        /\ trace' = <<>>
        /\ UNCHANGED <<fs, calls>>

\* the entry points that may change the filesystem
Executors ==
    { "ProcessJsonConfig", "CopyFile", "CopyDirectory", "CreateDirectory",
      "SetupPackageJson", "SetupGoModule", "PrepareWorkspace", "copyFileSpec",
      "RemovePath", "ListDirectory" }

\* the host takes the returned value: it does so before its next call to an
\* entry point that may change the filesystem
ResultRead ==
    /\ call.op \in Executors
    /\ call' = [op |-> "none", args |-> <<>>]
    /\ result' = Returned(Nil, -1, <<>>)
    /\ trace' = <<>>
    /\ UNCHANGED <<currentSecurityContext, fs, calls>>

\* an entry point that returned r: the host makes at most MaxCalls such calls
Executed(name, args, r) ==
    /\ calls < MaxCalls
    /\ call.op \notin Executors
    /\ calls' = calls + 1
    /\ fs' = r.fs
    /\ call' = [op |-> name, args |-> args]
    /\ result' = Returned(r.err, r.index, r.value)
    /\ trace' = r.tr
    /\ UNCHANGED currentSecurityContext

\* the validators change neither the context nor the filesystem, so the answer
\* to a question does not depend on the questions asked before it: a question
\* is asked after a call that is not itself a question
Queries == {"ValidatePath", "ValidateOperation", "ValidateJsonConfig"}

Asked(name, args, err, index) ==
    /\ call.op \notin Queries
    /\ call' = [op |-> name, args |-> args]
    /\ result' = Returned(err, index, <<>>)
    /\ trace' = <<>>
    /\ UNCHANGED <<currentSecurityContext, fs, calls>>

\* the outcome of an entry point that returns an error only
Plain(r) == [fs |-> r.fs, err |-> r.err, tr |-> r.tr, index |-> -1, value |-> <<>>]

ProcessJsonConfigCall ==
    \E doc \in Docs :
        Executed("ProcessJsonConfig", <<doc>>, ProcessJsonConfig(currentSecurityContext, fs, doc))

ValidateJsonConfigCall ==
    \E doc \in Docs :
        \E v \in {ValidateJsonConfig(doc)} :
            Asked("ValidateJsonConfig", <<doc>>, v.err, v.index)

ValidatePathCall ==
    \E path \in ValidatorPaths, allowedDirs \in AllowLists :
        Asked("ValidatePath", <<path, allowedDirs>>,
              ValidatePath(currentSecurityContext, path, allowedDirs), -1)

ValidateOperationCall ==
    \E operation \in OperationNames, paths \in OperationPaths :
        Asked("ValidateOperation", <<operation, paths>>,
              ValidateOperation(currentSecurityContext, operation, paths), -1)

CopySources == { MainCpp, <<"/", "src", "/", "missing.cpp">>, <<".", ".", "/", "etc", "/", "passwd">>,
                 <<"/", "src", "/", "include">> }

CopyDests == { <<"/", "workspace", "/", "out">>, <<".", ".", "/", "out">>, MainCpp,
               <<"/", "src", "/", "include", "/", "out">> }

CopyFileCall ==
    \E src \in CopySources \cup {<<"/", "workspace">>}, dest \in CopyDests :
        Executed("CopyFile", <<src, dest>>,
                 Plain(CopyFile(currentSecurityContext, fs, src, dest)))

CopyDirectoryCall ==
    \E src \in CopySources \cup {SRC},
       dest \in CopyDests \cup {<<"/", "src", "/", "include">>} :
        Executed("CopyDirectory", <<src, dest>>,
                 Plain(CopyDirectory(currentSecurityContext, fs, src, dest)))

CreateDirectoryCall ==
    \E path \in CopyDests \cup {<<>>, Passwd} :
        Executed("CreateDirectory", <<path>>,
                 Plain(CreateDirectory(currentSecurityContext, fs, path)))

WorkDirs == { WS, ETC, <<"/", "workspace", "/", ".", ".", "out">> }

SetupPackageJsonCall ==
    \E workDir \in WorkDirs :
        Executed("SetupPackageJson", <<workDir>>,
                 Plain(SetupPackageJson(currentSecurityContext, fs, [Name |-> "pkg"],
                                        workDir)))

FileSpecs ==
    [Source : {MainCpp, <<"/", "src", "/", "include", "/", "types.h">>},
     HasDestination : {FALSE}, Destination : {<<>>},
     PreserveStructure : BOOLEAN]

GoModuleConfigs ==
    [Sources : SeqsUpTo(FileSpecs, 1),
     HasGoModFile : {FALSE}, GoModFile : {<<>>},
     HasWitFile : BOOLEAN, WitFile : {Passwd}]

SetupGoModuleCall ==
    \E config \in GoModuleConfigs, workDir \in WorkDirs :
        Executed("SetupGoModule", <<config, workDir>>,
                 Plain(SetupGoModule(currentSecurityContext, fs, config, workDir)))

PlainSpec(source) ==
    [Source |-> source, HasDestination |-> FALSE, Destination |-> <<>>,
     PreserveStructure |-> FALSE]

\* the file lists of a descriptor: sources, headers, dependencies
WorkspaceFiles ==
    { <<<<>>, <<>>, <<>>>>,
      <<<<PlainSpec(MainCpp)>>, <<>>, <<>>>>,
      <<<<PlainSpec(MainCpp)>>,
        <<PlainSpec(<<"/", "src", "/", "include", "/", "types.h">>)>>, <<>>>>,
      <<<<PlainSpec(MainCpp)>>,
        <<PlainSpec(<<"/", "src", "/", "include", "/", "types.h">>)>>,
        <<PlainSpec(Passwd)>>>>,
      <<<<>>, <<>>, <<PlainSpec(<<"/", "src", "/", "missing.cpp">>)>>>> }

\* a descriptor with no security_config carries Level SecurityStandard unread
WorkspaceConfigs ==
    { [WorkDir |-> workDir, Sources |-> files[1], Headers |-> files[2],
       Dependencies |-> files[3], HasBindingsDir |-> hasBindings,
       BindingsDir |-> <<"/", "src", "/", "include">>,
       HasSecurityConfig |-> sec[1], SecurityConfig |-> [Level |-> sec[2]]] :
      workDir \in {WS, ETC}, files \in WorkspaceFiles, hasBindings \in BOOLEAN,
      sec \in ({TRUE} \X SecurityLevels) \cup {<<FALSE, SecurityStandard>>} }

PrepareWorkspaceCall ==
    \E config \in WorkspaceConfigs :
        /\ calls < MaxCalls
        /\ call.op \notin Executors
        /\ (config.HasSecurityConfig /\ config.SecurityConfig.Level # SecurityStandard) =>
               Len(currentSecurityContext.Restrictions) + 2 <= MaxRestrictions
        /\ \E r \in {PrepareWorkspace(currentSecurityContext, fs, config)} :
               /\ currentSecurityContext' = r.sc
               /\ fs' = r.fs
               /\ result' = Returned(r.err, r.index, r.value)
               /\ trace' = r.tr
        /\ calls' = calls + 1
        /\ call' = [op |-> "PrepareWorkspace", args |-> <<config>>]

Next ==
    \/ SetSecurityLevelCall
    \/ ConfigurePreopenDirsCall
    \/ ResultRead
    \/ ValidatePathCall
    \/ ValidateOperationCall
    \/ ProcessJsonConfigCall
    \/ ValidateJsonConfigCall
    \/ CopyFileCall
    \/ CopyDirectoryCall
    \/ CreateDirectoryCall
    \/ SetupPackageJsonCall
    \/ SetupGoModuleCall
    \/ PrepareWorkspaceCall

Spec == Init /\ [][Next]_vars

\* the validator and its configuration
NextPolicy ==
    \/ SetSecurityLevelCall
    \/ ConfigurePreopenDirsCall
    \/ ValidatePathCall
    \/ ValidateOperationCall
    \/ ValidateJsonConfigCall

SpecPolicy == Init /\ [][NextPolicy]_vars

\* the batch processor under every configuration
NextBatch ==
    \/ SetSecurityLevelCall
    \/ ConfigurePreopenDirsCall
    \/ ResultRead
    \/ ProcessJsonConfigCall

SpecBatch == Init /\ [][NextBatch]_vars

\* the primitives and the workspace set-up calls under every configuration
NextExecutor ==
    \/ SetSecurityLevelCall
    \/ ConfigurePreopenDirsCall
    \/ ResultRead
    \/ CopyFileCall
    \/ CopyDirectoryCall
    \/ CreateDirectoryCall
    \/ SetupPackageJsonCall
    \/ SetupGoModuleCall

SpecExecutor == Init /\ [][NextExecutor]_vars

\* workspace preparation, which may itself set the security level, among the
\* configuration calls and two entry points that do not
\* the addresses the allocator may return: below, at and above a multiple of
\* 64 KiB
HeapAddresses == { 1024, 65535, 65536, 66560, 131072 }

BoundaryPaths ==
    { <<>>, <<"a">>, <<"a", "/", "b">>, <<"/", "a", "/">>, <<"ERROR: ", "a">>,
      <<"ERROR: ", "unexpected end of JSON input">>, <<"a", ".", ".">>,
      <<LongName, ".", ".">> }

\* the JSON text of a list of paths, or text that does not decode
PathLists ==
    { [decodes |-> FALSE, paths |-> <<>>] }
        \cup [decodes : {TRUE}, paths : SeqsUpTo(BoundaryPaths \ {<<LongName, ".", ".">>}, 1)]
        \cup { [decodes |-> TRUE, paths |-> << <<"a">>, <<"b">> >>],
               [decodes |-> TRUE, paths |-> << <<>>, <<>> >>] }

\* an export that changes neither the context nor the filesystem returned o
Exported(name, args, o) ==
    /\ call' = [op |-> name, args |-> args]
    /\ result' = Returned(IF o.outcome = "error" THEN "error" ELSE Nil, -1, o)
    /\ trace' = <<>>
    /\ UNCHANGED <<currentSecurityContext, fs, calls>>

exportJoinPathsCall ==
    \E input \in PathLists, addr \in HeapAddresses :
        Exported("exportJoinPaths", <<input>>, exportJoinPaths(input, addr))

exportGetDirnameCall ==
    \E path \in BoundaryPaths, addr \in HeapAddresses :
        Exported("exportGetDirname", <<path>>, exportGetDirname(path, addr))

exportGetBasenameCall ==
    \E path \in BoundaryPaths, addr \in HeapAddresses :
        Exported("exportGetBasename", <<path>>, exportGetBasename(path, addr))

exportResolveAbsolutePathCall ==
    \E path \in BoundaryPaths, addr \in HeapAddresses :
        Exported("exportResolveAbsolutePath", <<path>>,
                 exportResolveAbsolutePath(path, addr))

exportValidatePathCall ==
    \E path \in BoundaryPaths, input \in PathLists, addr \in HeapAddresses :
        Exported("exportValidatePath", <<path, input>>,
                 exportValidatePath(currentSecurityContext, path, input, addr))

\* the exports that return an encoded value
NextBoundary ==
    \/ exportJoinPathsCall
    \/ exportGetDirnameCall
    \/ exportGetBasenameCall
    \/ exportResolveAbsolutePathCall
    \/ exportValidatePathCall

SpecBoundary == Init /\ [][NextBoundary]_vars

\* packPtrLen applied to a buffer address and a length
PackPointers == 0..MaxPackPtr \cup { 65535, 65536, 65537, 2147483647 }

PackLengths == 0..MaxPackLen \cup { 65535, 65536, 65537, 2147483647 }

packPtrLenCall ==
    \E ptr \in PackPointers, length \in PackLengths :
        /\ call' = [op |-> "packPtrLen", args |-> <<ptr, length>>]
        /\ result' = Returned(Nil, -1, packPtrLen(ptr, length))
        /\ trace' = <<>>
        /\ UNCHANGED <<currentSecurityContext, fs, calls>>

SpecPacking == Init /\ [][packPtrLenCall]_vars

NextWorkspace ==
    \/ SetSecurityLevelCall
    \/ ConfigurePreopenDirsCall
    \/ ResultRead
    \/ PrepareWorkspaceCall
    \/ CreateDirectoryCall
    \/ SetupPackageJsonCall

SpecWorkspace == Init /\ [][NextWorkspace]_vars

----------------------------------------------------------------------------
(* Properties of the validator (SpecPolicy) *)

\* C1: a path whose cleaned form contains ".." is denied by ValidatePath under
\* every allow-list, at every security level and for every accessible_dirs.
C1_TraversalAlwaysDenied ==
    (call.op = "ValidatePath" /\ Contains(Clean(call.args[1]), DotDot))
        => result.err # Nil

\* a ".." inside a name ("workspace..") was presented at Standard and denied
C1_Witness ==
    /\ call.op = "ValidatePath"
    /\ call.args[1] = <<"workspace", ".", ".">>
    /\ currentSecurityContext.Level = SecurityStandard
    /\ result.err = "path contains path traversal attempts"

\* C2: "/workspace/../etc/passwd" with allow-list ["/workspace"] is denied by
\* ValidatePath at every security level, Standard with empty accessible_dirs
\* included.
C2_EscapeDeniedAtEveryLevel ==
    (call.op = "ValidatePath" /\ call.args = <<EscapeWS, <<WS>>>>) => result.err # Nil

\* the verdict of ValidatePath on the presented path at level l, the
\* allow-list and accessible_dirs being those of the call
VerdictAt(l) ==
    ValidatePath([currentSecurityContext EXCEPT !.Level = l], call.args[1], call.args[2])

\* C3: monotonic restrictiveness: a path denied at a level is denied at every
\* stricter level, for the same allow-list and accessible_dirs.
C3_MonotonicRestrictiveness ==
    call.op = "ValidatePath" =>
        \A l1, l2 \in SecurityLevels :
            (l1 < l2 /\ VerdictAt(l1) # Nil) => VerdictAt(l2) # Nil

\* a path without ".." was denied at High for lying outside the allow-list:
\* Standard admits it, High and Strict do not
C3_Witness ==
    /\ call.op = "ValidatePath"
    /\ currentSecurityContext.Level = SecurityHigh
    /\ ~containsPathTraversal(call.args[1])
    /\ result.err = "not within allowed directories"
    /\ VerdictAt(SecurityStandard) = Nil
    /\ VerdictAt(SecurityStrict) # Nil

\* the cleaned path p starts with the characters of the cleaned entry d
LiesUnder(p, d) == HasPrefix(Clean(p), Clean(d))

LiesUnderSome(p, dirs) == \E i \in 1..Len(dirs) : LiesUnder(p, dirs[i])

\* the absolute form of p holds one of the sensitive names, in any letter case
HoldsSensitiveName(p) ==
    \E pat \in { <<"secret">>, <<"private">>, <<".", "ssh">> } :
        Contains(ToLower(Abs(p)), pat)

\* C11: at Strict ValidatePath(p, allow) returns Ok if and only if the cleaned
\* p contains no "..", allow is non-empty, the cleaned p lies under an entry of
\* allow, accessible_dirs is empty or the cleaned p lies under one of its
\* entries, and the absolute form of p holds none of "secret", "private",
\* ".ssh" in any letter case.
C11_StrictCharacterised ==
    (call.op = "ValidatePath" /\ currentSecurityContext.Level = SecurityStrict) =>
        (result.err = Nil <=>
            /\ ~Contains(Clean(call.args[1]), DotDot)
            /\ call.args[2] # <<>>
            /\ LiesUnderSome(call.args[1], call.args[2])
            /\ \/ currentSecurityContext.AccessibleDirs = <<>>
               \/ LiesUnderSome(call.args[1], currentSecurityContext.AccessibleDirs)
            /\ ~HoldsSensitiveName(call.args[1]))

\* /workspace/a.txt with allow-list [/workspace] was admitted at Strict while
\* accessible_dirs held /workspace
C11_Witness ==
    /\ call.op = "ValidatePath"
    /\ call.args = << <<"/", "workspace", "/", "a.txt">>, <<WS>> >>
    /\ currentSecurityContext.Level = SecurityStrict
    /\ currentSecurityContext.AccessibleDirs = <<WS>>
    /\ result.err = Nil

\* C12: at High ValidatePath(p, allow) returns Ok if and only if the cleaned p
\* contains no "..", allow is empty or the cleaned p lies under an entry of
\* allow, and accessible_dirs is empty or the cleaned p lies under one of its
\* entries; every other path is denied with a reason.
C12_HighCharacterised ==
    (call.op = "ValidatePath" /\ currentSecurityContext.Level = SecurityHigh) =>
        (result.err = Nil <=>
            /\ ~Contains(Clean(call.args[1]), DotDot)
            /\ \/ call.args[2] = <<>>
               \/ LiesUnderSome(call.args[1], call.args[2])
            /\ \/ currentSecurityContext.AccessibleDirs = <<>>
               \/ LiesUnderSome(call.args[1], currentSecurityContext.AccessibleDirs))

\* a path under the allow-list was denied at High for lying outside
\* accessible_dirs
C12_Witness ==
    /\ call.op = "ValidatePath"
    /\ currentSecurityContext.Level = SecurityHigh
    /\ call.args[2] = <<ETC, WS>>
    /\ currentSecurityContext.AccessibleDirs = <<WS>>
    /\ LiesUnder(call.args[1], ETC)
    /\ result.err = "not accessible in current security context"

\* the last call was ValidateOperation("remove_path", [p]) at Strict
RemoveAsked ==
    /\ call.op = "ValidateOperation"
    /\ call.args[1] = "remove_path"
    /\ Len(call.args[2]) = 1
    /\ currentSecurityContext.Level = SecurityStrict

----------------------------------------------------------------------------
(* Properties of the SecurityContext (SpecWorkspace, SpecPolicy) *)

\* the last call set the security level
LevelJustSet ==
    \/ call.op = "SetSecurityLevel"
    \/ call.op = "PrepareWorkspace" /\ call.args[1].HasSecurityConfig

\* C14: the security level is set once: after a call has set it to a level
\* L, no later call (SetSecurityLevel, PrepareWorkspace with a
\* security_config, ConfigurePreopenDirs or any other entry point) leaves the
\* SecurityContext at a level different from L.
C14_LevelSetOnce ==
    [][LevelJustSet =>
           currentSecurityContext'.Level = currentSecurityContext.Level]_vars

\* C14 as the code has it: every SetSecurityLevel(L) and every
\* PrepareWorkspace with a security_config of level L leaves the level at L,
\* whatever it was before, lower levels included; every other call leaves
\* the level as it was.
C14_LevelFollowsLastSetting ==
    [][/\ call'.op = "SetSecurityLevel" =>
              currentSecurityContext'.Level = call'.args[1]
       /\ (call'.op = "PrepareWorkspace" /\ call'.args[1].HasSecurityConfig) =>
              currentSecurityContext'.Level = call'.args[1].SecurityConfig.Level
       /\ ~(\/ call'.op = "SetSecurityLevel"
            \/ call'.op = "PrepareWorkspace" /\ call'.args[1].HasSecurityConfig) =>
              currentSecurityContext'.Level = currentSecurityContext.Level]_vars

\* PrepareWorkspace with a security_config of level High ran when the level
\* had been set to Strict: the restrictions of Strict precede those of High
C14_Witness ==
    /\ call.op = "PrepareWorkspace"
    /\ call.args[1].HasSecurityConfig
    /\ call.args[1].SecurityConfig.Level = SecurityHigh
    /\ currentSecurityContext.Level = SecurityHigh
    /\ currentSecurityContext.Restrictions =
           << <<"explicit allow-listing required">>, <<"sensitive path detection">>,
              <<"directory access restrictions">>, <<"preopen directory enforcement">> >>

\* C15: re-setting the security level to its current value is idempotent:
\* SetSecurityLevel(L) applied a second time leaves level, accessible_dirs
\* and the restrictions list as the first application left them.
C15_ResetIdempotent ==
    [][(call.op = "SetSecurityLevel" /\ call'.op = "SetSecurityLevel"
            /\ call'.args = call.args)
           => currentSecurityContext' = currentSecurityContext]_vars

\* C16: every entry of AccessibleDirs is a lexically cleaned path without a
\* ".." segment, whatever list was passed to ConfigurePreopenDirs.
C16_AccessibleDirsNormalized ==
    \A i \in 1..Len(currentSecurityContext.AccessibleDirs) :
        /\ Clean(currentSecurityContext.AccessibleDirs[i])
               = currentSecurityContext.AccessibleDirs[i]
        /\ DotDot \notin
               { Split(currentSecurityContext.AccessibleDirs[i])[k] :
                   k \in 1..Len(Split(currentSecurityContext.AccessibleDirs[i])) }

\* C16 as the code has it: AccessibleDirs holds the virtual paths of the last
\* ConfigurePreopenDirs list exactly as they were passed, in order; they are
\* cleaned only when a path is compared against them.
C16_AccessibleDirsVerbatim ==
    [][call'.op = "ConfigurePreopenDirs" =>
           currentSecurityContext'.AccessibleDirs =
               [i \in 1..Len(call'.args[1]) |-> call'.args[1][i].VirtualPath]]_vars

\* "/workspace/../etc" was passed as a virtual path and is held as passed
C16_Witness ==
    /\ call.op = "ConfigurePreopenDirs"
    /\ call.args[1] = <<PreopenUncleaned>>
    /\ currentSecurityContext.AccessibleDirs =
           << <<"/", "workspace", "/", ".", ".", "/", "etc">> >>

----------------------------------------------------------------------------
(* Properties of the boundary (SpecBoundary, SpecPacking) *)

BoundaryExports ==
    { "exportJoinPaths", "exportGetDirname", "exportGetBasename",
      "exportResolveAbsolutePath", "exportValidatePath" }

\* C17: no exported entry point faults: for every decodable input the export
\* returns an encoded value, for errors and for successes, a success value
\* that is the empty string included.
C17_NoExportFaults == call.op \in BoundaryExports => ~result.value.fault

\* C18: distinct (ptr, len) pairs of 32-bit values never pack to the same
\* word, so that the pair can be recovered from the word packPtrLen returns.
C18_PackingInjective ==
    call.op = "packPtrLen" =>
        \A ptr \in PackPointers, length \in PackLengths :
            packPtrLen(ptr, length) = result.value => <<ptr, length>> = call.args

\* C19: an error outcome is never confused with a success outcome of the
\* same entry point: a success value of join-paths never has the bytes of
\* one of its errors, and the word a status-returning export returns on an
\* error is never 0.
C19_ErrorsTagged ==
    /\ (call.op = "exportJoinPaths" /\ result.value.outcome = "success"
            /\ ~result.value.fault)
           => result.value.bytes # <<"ERROR: ">> \o JsonSyntaxError
    /\ (call.op = "exportValidatePath" /\ result.value.outcome = "error")
           => result.value.word # Zero

----------------------------------------------------------------------------
(* Properties of the batch processor (SpecBatch) and of the executor        *)
(* (SpecExecutor)                                                           *)

IsMutation(e) == e.ev \in {"mkdirall", "create", "write"}

\* p is root or lies below it, component-wise
Under(p, root) == p = root \/ HasPrefix(p, root \o <<"/">>)

\* the last call was ProcessJsonConfig of a document that passes pre-validation
BatchAccepted ==
    call.op = "ProcessJsonConfig" /\ ValidateJsonConfig(call.args[1]).err = Nil

\* C4: for a document accepted by pre-validation, every path that
\* ProcessJsonConfig creates or writes lies under workspace_dir.
C4_WritesStayUnderWorkspace ==
    BatchAccepted =>
        \A k \in 1..Len(trace) :
            (IsMutation(trace[k]) /\ trace[k].ok)
                => Under(Abs(trace[k].path), Clean(call.args[1].WorkspaceDir))

\* C5: at High or Strict ValidateOperation denies run_command for
\* every path list, and no call spawns a command.
C5_NoCommandAtHigh ==
    currentSecurityContext.Level >= SecurityHigh =>
        /\ \A paths \in OperationPaths :
               ValidateOperation(currentSecurityContext, "run_command", paths) # Nil
        /\ \A k \in 1..Len(trace) : trace[k].ev # "spawn"

\* C6: CopyFile and CopyDirectory whose source fails validation
\* return an error and create no directory and no file.
C6_SourceValidated ==
    (/\ call.op \in {"CopyFile", "CopyDirectory"}
     /\ ValidatePath(currentSecurityContext, call.args[1], <<>>) # Nil)
        => /\ result.err # Nil
           /\ \A k \in 1..Len(trace) : ~IsMutation(trace[k])

\* an accepted validation of v covers a write to p when p is v, the parent
\* directory created on behalf of v, or a path below v
Covers(v, p) ==
    \/ Clean(p) = Clean(v)
    \/ Clean(p) = Dir(v)
    \/ Under(Clean(p), Clean(v))

\* C7: every creation or overwrite is preceded, in the same call,
\* by a ValidatePath that accepted its path.
C7_ValidationPrecedesMutation ==
    \A k \in 1..Len(trace) :
        IsMutation(trace[k]) =>
            \E j \in 1..(k - 1) :
                /\ trace[j].ev = "validate"
                /\ trace[j].ok
                /\ Covers(trace[j].path, trace[k].path)

\* the rule of the document format for one operation
OperationIllFormed(op) ==
    IF op.Type \in {"copy_file", "copy_directory_contents"}
    THEN op.SrcPath = <<>> \/ op.DestPath = <<>> \/ ~IsAbs(op.SrcPath) \/ IsAbs(op.DestPath)
    ELSE IF op.Type = "mkdir" THEN op.Path = <<>> \/ IsAbs(op.Path)
    ELSE IF op.Type = "run_command" THEN op.Command = ""
    ELSE TRUE

DocumentIllFormed(doc) ==
    \/ ~doc.parses
    \/ doc.WorkspaceDir = <<>>
    \/ ~IsAbs(doc.WorkspaceDir)
    \/ \E i \in 1..Len(doc.Operations) : OperationIllFormed(doc.Operations[i])

\* C8: ProcessJsonConfig of a document that is unparseable, has an empty or
\* relative workspace_dir or holds an ill-formed operation at any index returns
\* an error, makes no filesystem call and leaves the filesystem unchanged.
C8_RejectedBatchExecutesNothing ==
    [][(call'.op = "ProcessJsonConfig" /\ DocumentIllFormed(call'.args[1]))
        => (/\ fs' = fs
            /\ trace' = <<>>
            /\ result'.err # Nil
            /\ result'.value = NoWorkspaceInfo)]_vars

\* a document whose valid first operation precedes an unknown one was
\* rejected and neither the workspace nor the first directory exists
C8_Witness ==
    /\ call.op = "ProcessJsonConfig"
    /\ call.args[1].WorkspaceDir = WS
    /\ call.args[1].Operations = <<MkdirInclude, UnknownOp>>
    /\ result.err = "invalid JSON config"
    /\ result.index = 1
    /\ ~Exists(fs, WS)

\* C9: for an accepted document the workspace directory is validated and
\* created first; the operations then run in input order, operation i+1 only
\* after operation i succeeded; a failing operation is the last thing done and
\* is the one reported; what earlier operations created is still there.
C9_InputOrder ==
    BatchAccepted =>
        LET ws == call.args[1].WorkspaceDir
            n == Len(call.args[1].Operations)
        IN  /\ Len(trace) >= 1
            /\ trace[1].ev = "validate" /\ trace[1].path = ws /\ trace[1].idx = -1
            /\ \A k \in 1..Len(trace) :
                   trace[k].idx >= 0 =>
                       \E j \in 1..(k - 1) :
                           /\ trace[j].ev = "mkdirall" /\ trace[j].path = ws
                           /\ trace[j].idx = -1 /\ trace[j].ok
            /\ \A j, k \in 1..Len(trace) : j < k => trace[j].idx <= trace[k].idx
            /\ \A k \in 1..Len(trace) :
                   trace[k].idx >= 1 =>
                       \E j \in 1..(k - 1) :
                           /\ trace[j].ev = "op" /\ trace[j].ok
                           /\ trace[j].idx = trace[k].idx - 1
            /\ \A k \in 1..Len(trace) :
                   (trace[k].ev = "op" /\ ~trace[k].ok) =>
                       /\ k = Len(trace)
                       /\ result.err # Nil
                       /\ result.index = trace[k].idx
            /\ result.err = Nil =>
                   \A i \in 0..(n - 1) :
                       \E k \in 1..Len(trace) :
                           trace[k].ev = "op" /\ trace[k].idx = i /\ trace[k].ok
            /\ \A k \in 1..Len(trace) :
                   (IsMutation(trace[k]) /\ trace[k].ok) => Exists(fs, trace[k].path)

\* the second operation failed after the first had created its directory,
\* which is still there
C9_Witness ==
    /\ call.op = "ProcessJsonConfig"
    /\ call.args[1].WorkspaceDir = WS
    /\ call.args[1].Operations = <<MkdirInclude, CopyMissing>>
    /\ result.err = "operation failed"
    /\ result.index = 1
    /\ IsDirIn(fs, <<"/", "workspace", "/", "include">>)

\* the path a mkdir or copy_file operation reports when it succeeds
ProducedPath(doc, i) ==
    IF doc.Operations[i].Type = "mkdir"
    THEN Join(<<doc.WorkspaceDir, doc.Operations[i].Path>>)
    ELSE Join(<<doc.WorkspaceDir, doc.Operations[i].DestPath>>)

\* the mkdir and copy_file operations that ran before the failing one
EarlierProducers ==
    {i \in 1..result.index :
        call.args[1].Operations[i].Type \in {"mkdir", "copy_file"}}

\* C10 as stated: when operation i fails, the returned value still lists the
\* paths produced by the operations before it.
C10_EarlierResultsReturned ==
    (call.op = "ProcessJsonConfig" /\ result.err = "operation failed") =>
        \A i \in EarlierProducers :
            \E k \in 1..Len(result.value.PreparedFiles) :
                result.value.PreparedFiles[k] = ProducedPath(call.args[1], i)

\* C10 amended: when operation i fails, ProcessJsonConfig returns the error
\* with an empty WorkspaceInfo (no prepared_files, no workspace_path); what the
\* operations before i produced is kept on the filesystem only.
C10_EarlierResultsOnDiskOnly ==
    (call.op = "ProcessJsonConfig" /\ result.err = "operation failed") =>
        /\ result.value = NoWorkspaceInfo
        /\ \A i \in EarlierProducers : Exists(fs, ProducedPath(call.args[1], i))

\* a copy succeeded, the next operation failed, and the value returned is empty
C10_Witness ==
    /\ call.op = "ProcessJsonConfig"
    /\ call.args[1].Operations = <<CopyMain, CopyMissing>>
    /\ result.err = "operation failed"
    /\ result.index = 1
    /\ result.value.PreparedFiles = <<>>
    /\ Exists(fs, <<"/", "workspace", "/", "main.cpp">>)

\* the document is accepted by pre-validation and holds only mkdir and
\* copy_file operations whose sources exist in the filesystem f
MkdirCopyBatch(doc, f) ==
    /\ ValidateJsonConfig(doc).err = Nil
    /\ \A i \in 1..Len(doc.Operations) :
           \/ doc.Operations[i].Type = "mkdir"
           \/ doc.Operations[i].Type = "copy_file" /\ Exists(f, doc.Operations[i].SrcPath)

\* what C20 promises of the outcome r and the filesystem g left by the batch
\* doc that ran on the filesystem f
MkdirCopyOutcome(doc, f, r, g) ==
    /\ r.err = Nil
    /\ r.value.WorkspacePath = doc.WorkspaceDir
    /\ r.value.PreparedFiles = [i \in 1..Len(doc.Operations) |-> ProducedPath(doc, i)]
    /\ IsDirIn(g, Resolve(g, doc.WorkspaceDir))
    /\ \A i \in 1..Len(doc.Operations) :
           IF doc.Operations[i].Type = "mkdir"
           THEN IsDirIn(g, Resolve(g, ProducedPath(doc, i)))
           ELSE /\ Exists(g, ProducedPath(doc, i))
                /\ g[Resolve(g, ProducedPath(doc, i))]
                       = f[Resolve(f, doc.Operations[i].SrcPath)]
                /\ g[Resolve(g, ProducedPath(doc, i))] # "dir"

Ancestors(p) == { SubSeq(p, 1, k - 1) : k \in { j \in 2..Len(p) : p[j] = "/" } }

\* ValidatePath with an empty allow-list admits workspace_dir and every
\* target at the level of sc; every copy_file source is a regular file; and
\* no target collides: what exists at a target or above it is of the kind the
\* operation needs, and no path is written as a file and used as a directory
\* by the same batch
MkdirCopyUnhindered(sc, doc, f) ==
    /\ ValidatePath(sc, doc.WorkspaceDir, <<>>) = Nil
    /\ ~(Exists(f, doc.WorkspaceDir) /\ ~IsDirIn(f, Resolve(f, doc.WorkspaceDir)))
    /\ \A i \in 1..Len(doc.Operations) :
           /\ ValidatePath(sc, ProducedPath(doc, i), <<>>) = Nil
           /\ Len(ProducedPath(doc, i)) <= PathMax
           /\ \A a \in Ancestors(ProducedPath(doc, i)) : a \in DOMAIN f => f[a] = "dir"
           /\ ProducedPath(doc, i) \in DOMAIN f =>
                  (f[ProducedPath(doc, i)] = "dir" <=> doc.Operations[i].Type = "mkdir")
           /\ doc.Operations[i].Type = "copy_file" =>
                  /\ ~IsDirIn(f, Resolve(f, doc.Operations[i].SrcPath))
                  /\ \A j \in 1..Len(doc.Operations) :
                         /\ ProducedPath(doc, i) \notin Ancestors(ProducedPath(doc, j))
                         /\ doc.Operations[j].Type = "mkdir" =>
                                ProducedPath(doc, j) # ProducedPath(doc, i)

----------------------------------------------------------------------------
(* The document validator.                                                 *)

\* the index of the first operation of doc that breaks the rule of its type
FirstIllFormed(doc) ==
    CHOOSE i \in 1..Len(doc.Operations) :
        /\ OperationIllFormed(doc.Operations[i])
        /\ \A j \in 1..(i - 1) : ~OperationIllFormed(doc.Operations[j])

\* C21: ValidateJsonConfig accepts a document exactly when it parses, its
\* workspace_dir is a non-empty absolute path and every operation satisfies
\* the rule of its type; when the document itself is in order and an operation
\* is not, the first such operation is reported by its index; the call changes
\* neither the filesystem nor the SecurityContext.
C21_ValidateJsonConfigRule ==
    [][call'.op = "ValidateJsonConfig"
        => (/\ (result'.err = Nil) <=> ~DocumentIllFormed(call'.args[1])
            /\ (/\ call'.args[1].parses
                /\ call'.args[1].WorkspaceDir # <<>>
                /\ IsAbs(call'.args[1].WorkspaceDir)
                /\ DocumentIllFormed(call'.args[1]))
                   => result'.index = FirstIllFormed(call'.args[1]) - 1
            /\ fs' = fs
            /\ currentSecurityContext' = currentSecurityContext)]_vars

\* a document whose well-formed mkdir precedes a run_command without a command
\* was rejected at index 1
C21_Witness ==
    /\ call.op = "ValidateJsonConfig"
    /\ call.args[1].WorkspaceDir = WS
    /\ call.args[1].Operations = <<MkdirInclude, RunNoCommand>>
    /\ result.err = "run_command requires command"
    /\ result.index = 1

----------------------------------------------------------------------------
(* Workspace expansion: the name of a copy.                                *)

\* the FileSpecs expanded: without and with an explicit destination of one,
\* two and three segments, with and without preserve_structure
NamedSpecs ==
    [Source : {MainCpp, <<"/", "src", "/", "include", "/", "types.h">>},
     HasDestination : {FALSE}, Destination : {<<>>},
     PreserveStructure : BOOLEAN]
        \cup [Source : {MainCpp},
              HasDestination : {TRUE},
              Destination : { <<"main.cpp">>, <<"include", "/", "main.cpp">>,
                              <<"src", "/", "include", "/", "main.cpp">> },
              PreserveStructure : BOOLEAN]

copyFileSpecCall ==
    \E spec \in NamedSpecs, destDir \in WorkDirs :
        \E r \in {copyFileSpec(currentSecurityContext, fs, spec, destDir)} :
            Executed("copyFileSpec", <<spec, destDir>>,
                     [fs |-> r.fs, err |-> r.err, tr |-> r.tr, index |-> -1,
                      value |-> r.files])

NextExpansion ==
    \/ SetSecurityLevelCall
    \/ ConfigurePreopenDirsCall
    \/ ResultRead
    \/ copyFileSpecCall

SpecExpansion == Init /\ [][NextExpansion]_vars

\* the destination name the rule gives a FileSpec
NameByRule(spec) ==
    IF spec.HasDestination THEN spec.Destination
    ELSE IF spec.PreserveStructure
    THEN Join(<<Base(Dir(spec.Source)), Base(spec.Source)>>)
    ELSE Base(spec.Source)

\* C22: the copy of a FileSpec is made at destDir joined with the explicit
\* destination when one is given, unchanged whatever preserve_structure is;
\* otherwise with the last two path segments of the source when
\* preserve_structure is set; otherwise with the base name of the source.
C22_DestinationByRule ==
    [][(call'.op = "copyFileSpec" /\ result'.err = Nil)
        => result'.value = <<Join(<<call'.args[2], NameByRule(call'.args[1])>>)>>]_vars

----------------------------------------------------------------------------
(* The recursive copy.                                                     *)

\* the entries of f strictly below the directory root
Below(f, root) == { q \in DOMAIN f : q # root /\ HasPrefix(q, root \o <<"/">>) }

\* the paths of those entries relative to root
RelativePaths(f, root) == { SubSeq(q, Len(root) + 1, Len(q)) : q \in Below(f, root) }

\* g holds below to what f holds below from: the same relative paths, a
\* directory for a directory and the same bytes for a file
Mirrors(g, to, f, from) ==
    /\ RelativePaths(g, to) = RelativePaths(f, from)
    /\ \A rel \in RelativePaths(f, from) : g[to \o rel] = f[from \o rel]

\* C23: after a successful CopyDirectory(src, dest) into a destination that
\* did not exist, the relative paths under dest are those under src, every
\* file under dest has the bytes of the file at the same relative path under
\* src, and src is unchanged; CopyDirectory fails when src is missing or is
\* not a directory.
C23_CopyDirectoryMirrors ==
    [][call'.op = "CopyDirectory"
        => (/\ (result'.err = Nil /\ ~Exists(fs, call'.args[2]))
                  => (/\ IsDirIn(fs', Resolve(fs', call'.args[2]))
                      /\ Mirrors(fs', Resolve(fs', call'.args[2]),
                                 fs, Resolve(fs, call'.args[1]))
                      /\ Mirrors(fs', Resolve(fs, call'.args[1]),
                                 fs, Resolve(fs, call'.args[1])))
            /\ ~IsDirIn(fs, Resolve(fs, call'.args[1])) => result'.err # Nil)]_vars

\* /src, which holds a file and a directory holding a file, was copied to the
\* new directory /workspace/out
C23_Witness ==
    /\ call.op = "CopyDirectory"
    /\ call.args = <<SRC, <<"/", "workspace", "/", "out">>>>
    /\ result.err = Nil
    /\ RelativePaths(fs, <<"/", "workspace", "/", "out">>)
           = { <<"/", "main.cpp">>, <<"/", "include">>,
               <<"/", "include", "/", "types.h">> }
    /\ fs[<<"/", "workspace", "/", "out", "/", "include", "/", "types.h">>] = "typedef"

----------------------------------------------------------------------------
(* The safe delete.  A removal only shrinks the filesystem, so the host's  *)
(* removals are not counted against MaxCalls.                              *)

RemovePaths ==
    { <<>>, <<".">>, WS, <<"/", "workspace", "/", ".">>, MainCpp, <<"include">>,
      <<"/", "src", "/", "include">>, <<"/", "src", "/", "include", "/", ".">>,
      <<"/", "src", "/", "include", "/", "types.h">>,
      <<"/", "src", "/", "main.cpp", "/", "out">>, DotDot, ETC, Passwd }

exportRemovePathCall ==
    \E path \in RemovePaths, strict \in BOOLEAN :
        \E r \in {RemovePath(currentSecurityContext, fs, path, strict)} :
            /\ call.op \notin Executors
            /\ fs' = r.fs
            /\ call' = [op |-> "RemovePath", args |-> <<path>>]
            /\ result' = Returned(r.err, -1, <<>>)
            /\ trace' = r.tr
            /\ UNCHANGED <<currentSecurityContext, calls>>

NextRemoval ==
    \/ SetSecurityLevelCall
    \/ ConfigurePreopenDirsCall
    \/ ResultRead
    \/ exportRemovePathCall

SpecRemoval == Init /\ [][NextRemoval]_vars

\* the last call was RemovePath of a path the validator admitted
RemovalAdmitted ==
    /\ call'.op = "RemovePath"
    /\ ValidatePath(currentSecurityContext, call'.args[1], <<>>) = Nil

\* C24: RemovePath of a path the validator admits returns success and the
\* path does not exist afterwards, in every state, so also when the same
\* removal was made just before; when the path was missing the call leaves the
\* filesystem as it was.
C24_RemoveIdempotent ==
    [][RemovalAdmitted
        => (/\ result'.err = Nil
            /\ ~Exists(fs', call'.args[1])
            /\ ~Exists(fs, call'.args[1]) => fs' = fs)]_vars

\* the same for a path that is neither "." nor ends in "/." (which
\* os.RemoveAll refuses) and does not lead through a regular file; for a path
\* ending in a dot the call fails and changes nothing
C24_RemoveIdempotentExceptDot ==
    [][RemovalAdmitted
        => (/\ (~endsWithDot(call'.args[1]) /\ ~ThroughFile(fs, call'.args[1]))
                  => (/\ result'.err = Nil
                      /\ ~Exists(fs', call'.args[1])
                      /\ ~Exists(fs, call'.args[1]) => fs' = fs)
            /\ endsWithDot(call'.args[1])
                  => (result'.err = "failed to remove path" /\ fs' = fs))]_vars

\* RemovePath of /src/include succeeded and the directory is gone with the
\* file it held, whether it was there before the call or already removed
C24_Witness ==
    /\ call.op = "RemovePath"
    /\ call.args = <<<<"/", "src", "/", "include">>>>
    /\ result.err = Nil
    /\ trace = <<Ev("validate", <<"/", "src", "/", "include">>, TRUE),
                 Ev("removeall", <<"/", "src", "/", "include">>, TRUE)>>
    /\ <<"/", "src", "/", "include", "/", "types.h">> \notin DOMAIN fs
    /\ MainCpp \in DOMAIN fs

----------------------------------------------------------------------------
(* Directory listing.  The export takes an empty pattern for no pattern.   *)

ListDirs ==
    { SRC, <<"/", "src", "/", "include">>, ETC, <<"/", "workspace", "/", "out">>,
      <<"/", "src", "/", "include", "/", "out">>, MainCpp, DotDot }

\* patterns, well-formed and malformed, as their characters
ListPatterns ==
    { <<>>, <<"*">>, <<"*", ".", "c", "p", "p">>, <<"m", "*">>,
      <<"?", "a", "i", "n", ".", "c", "p", "p">>, <<"[", "a", "-", "m", "]", "*">>,
      <<"[", "^", "i", "]", "*">>, <<"t", "y", "p", "e", "s", "\\", ".", "h">>,
      <<"[">>, <<"*", "[">>, <<"[", "]">>, <<"a", "\\">>, <<"[", "a", "-", "]">> }

exportListDirectoryCall ==
    \E dir \in ListDirs, pattern \in ListPatterns :
        \E r \in {ListDirectory(currentSecurityContext, fs, dir,
                                [given |-> Len(pattern) > 0, glob |-> pattern])} :
            /\ call.op \notin Executors
            /\ call' = [op |-> "ListDirectory", args |-> <<dir, pattern>>]
            /\ result' = Returned(r.err, -1, r.names)
            /\ trace' = r.tr
            /\ UNCHANGED <<currentSecurityContext, fs, calls>>

NextListing ==
    \/ SetSecurityLevelCall
    \/ ConfigurePreopenDirsCall
    \/ ResultRead
    \/ CreateDirectoryCall
    \/ exportListDirectoryCall

SpecListing == Init /\ [][NextListing]_vars

\* the names of the direct children of the directory d of f
ChildNames(f, d) == { Base(q) : q \in { r \in DOMAIN f : r # d /\ Dir(r) = d } }

\* the last call was ListDirectory of a directory the validator admits
ListedReadable ==
    /\ call'.op = "ListDirectory"
    /\ ValidatePath(currentSecurityContext, call'.args[1], <<>>) = Nil
    /\ IsDirIn(fs, Resolve(fs, call'.args[1]))

\* what the rule of ListDirectory requires of the answer for pattern pat
ListedByRule(pat) ==
    IF Len(pat) > 0 /\ Match(pat, <<>>).err THEN result'.err # Nil
    ELSE /\ result'.err = Nil
         /\ { result'.value[i] : i \in 1..Len(result'.value) }
                = { n \in ChildNames(fs, Resolve(fs, call'.args[1])) :
                        Len(pat) = 0 \/ Match(pat, CharsOf(n)).matched }
         /\ \A i, j \in 1..Len(result'.value) :
                result'.value[i] = result'.value[j] => i = j

\* C25: ListDirectory of a readable directory returns exactly the names of
\* the direct children that match the pattern, all of them without a pattern,
\* and fails for a malformed pattern, also when the directory has no entries.
C25_ListingByRule ==
    [][ListedReadable => ListedByRule(call'.args[2])]_vars

----------------------------------------------------------------------------
(* The prefix comparison.                                                  *)

\* C26: at High and Strict the allow-list check and the accessible_dirs check
\* of ValidatePath compare characters only: a path fails a check exactly when
\* the list is non-empty and the cleaned path starts with the characters of no
\* cleaned entry, so a sibling such as /workspace-evil/out passes against
\* /workspace; the source of a copy is found inaccessible only when it starts
\* with the characters of no entry of accessible_dirs.
C26_PrefixWithoutBoundary ==
    /\ (call.op = "ValidatePath" /\ currentSecurityContext.Level >= SecurityHigh)
          => (/\ result.err = "not within allowed directories"
                    <=> (/\ ~Contains(Clean(call.args[1]), DotDot)
                         /\ call.args[2] # <<>>
                         /\ ~LiesUnderSome(call.args[1], call.args[2]))
              /\ result.err = "not accessible in current security context"
                    <=> (/\ ~Contains(Clean(call.args[1]), DotDot)
                         /\ call.args[2] = <<>> \/ LiesUnderSome(call.args[1], call.args[2])
                         /\ currentSecurityContext.AccessibleDirs # <<>>
                         /\ ~LiesUnderSome(call.args[1],
                                           currentSecurityContext.AccessibleDirs)))
    /\ (/\ call.op = "ValidateOperation"
        /\ call.args[1] = "copy_file"
        /\ currentSecurityContext.Level >= SecurityHigh)
          => (result.err = "source path not accessible"
                    => (/\ Len(call.args[2]) >= 2
                        /\ currentSecurityContext.AccessibleDirs # <<>>
                        /\ ~LiesUnderSome(call.args[2][1],
                                          currentSecurityContext.AccessibleDirs)))

\* /workspace-evil/out was admitted at High against the allow-list
\* [/workspace] while accessible_dirs held /workspace
C26_Witness ==
    /\ call.op = "ValidatePath"
    /\ call.args = << <<"/", "workspace", "-evil", "/", "out">>, <<WS>> >>
    /\ currentSecurityContext.Level = SecurityHigh
    /\ currentSecurityContext.AccessibleDirs = <<WS>>
    /\ result.err = Nil

----------------------------------------------------------------------------
(* Strict.  The host configures the component and calls the primitives,    *)
(* the batch processor and workspace preparation while the level is        *)
(* Strict.                                                                 *)

AtStrict == currentSecurityContext.Level = SecurityStrict

\* the batch documents and workspace descriptors called at Strict
SmallDoc(doc) == doc.parses => Len(doc.Operations) <= 1

SmallDescriptor(config) == config.Headers = <<>> /\ config.Dependencies = <<>>

NextStrict ==
    \/ SetSecurityLevelCall
    \/ (ConfigurePreopenDirsCall /\ Len(call'.args[1]) <= 1)
    \/ ResultRead
    \/ (AtStrict /\ CopyFileCall /\ call'.args[1] = MainCpp)
    \/ (AtStrict /\ CopyDirectoryCall /\ call'.args[1] = SRC)
    \/ (AtStrict /\ CreateDirectoryCall)
    \/ (AtStrict /\ exportRemovePathCall)
    \/ (AtStrict /\ exportListDirectoryCall /\ Len(call'.args[2]) <= 1)
    \/ (AtStrict /\ ProcessJsonConfigCall /\ SmallDoc(call'.args[1]))
    \/ (AtStrict /\ PrepareWorkspaceCall /\ SmallDescriptor(call'.args[1]))

SpecStrict == Init /\ [][NextStrict]_vars

Primitives == {"CopyFile", "CopyDirectory", "CreateDirectory", "RemovePath", "ListDirectory"}

\* a primitive called at Strict returned the security-validation error and
\* changed nothing
PrimitiveDenied ==
    (AtStrict /\ call'.op \in Primitives)
        => (result'.err = "security validation failed" /\ fs' = fs)

\* ProcessJsonConfig called at Strict failed and changed nothing
BatchDenied ==
    (AtStrict /\ call'.op = "ProcessJsonConfig") => (result'.err # Nil /\ fs' = fs)

\* C27: at Strict each of CopyFile, CopyDirectory, CreateDirectory, RemovePath
\* and ListDirectory returns a security-validation error for every argument
\* and changes nothing; ProcessJsonConfig and PrepareWorkspace fail at Strict
\* for every input and create nothing.
C27_StrictDeniesAll ==
    [][/\ PrimitiveDenied
       /\ BatchDenied
       /\ (AtStrict /\ call'.op = "PrepareWorkspace")
             => (result'.err # Nil /\ fs' = fs)]_vars

\* the same, with PrepareWorkspace failing at Strict for every descriptor that
\* has no security_config or whose security_config names Strict; a descriptor
\* naming another level is run at that level, which stays in force
C27_StrictDeniesAllButLowered ==
    [][/\ PrimitiveDenied
       /\ BatchDenied
       /\ (AtStrict /\ call'.op = "PrepareWorkspace")
             => IF /\ call'.args[1].HasSecurityConfig
                   /\ call'.args[1].SecurityConfig.Level # SecurityStrict
                THEN currentSecurityContext'.Level = call'.args[1].SecurityConfig.Level
                ELSE /\ result'.err = "failed to create workspace directory"
                     /\ fs' = fs
                     /\ AtStrict']_vars

\* at Strict, with accessible_dirs holding /workspace, PrepareWorkspace of a
\* descriptor without security_config failed before creating /workspace
C27_Witness ==
    /\ call.op = "PrepareWorkspace"
    /\ ~call.args[1].HasSecurityConfig
    /\ call.args[1].WorkDir = WS
    /\ AtStrict
    /\ currentSecurityContext.AccessibleDirs = <<WS>>
    /\ result.err = "failed to create workspace directory"
    /\ ~Exists(fs, WS)

----------------------------------------------------------------------------
(* The security_config of a workspace descriptor.                          *)

\* C28: PrepareWorkspace of a descriptor with a security_config leaves the
\* SecurityContext that SetSecurityLevel of the descriptor's level gives, also
\* when it returns an error, and its first step, the validation of the working
\* directory, is already made at that level; a descriptor without
\* security_config leaves the SecurityContext unchanged; the entry points that
\* follow, other than the configuration calls, leave the level in force.
C28_DescriptorLevelFirstAndKept ==
    [][/\ (call'.op = "PrepareWorkspace" /\ call'.args[1].HasSecurityConfig)
             => (/\ currentSecurityContext'
                       = SetSecurityLevel(currentSecurityContext,
                                          call'.args[1].SecurityConfig.Level)
                 /\ trace'[1] = Ev("validate", call'.args[1].WorkDir,
                                   ValidatePath(currentSecurityContext',
                                                call'.args[1].WorkDir, <<>>) = Nil))
       /\ (call'.op = "PrepareWorkspace" /\ ~call'.args[1].HasSecurityConfig)
             => currentSecurityContext' = currentSecurityContext
       /\ call'.op \in {"CreateDirectory", "SetupPackageJson", "none"}
             => currentSecurityContext' = currentSecurityContext]_vars

\* PrepareWorkspace of a descriptor naming Strict was called at Standard and
\* failed at its first step; the level is Strict with the restrictions of Strict
C28_Witness ==
    /\ call.op = "PrepareWorkspace"
    /\ call.args[1].HasSecurityConfig
    /\ call.args[1].SecurityConfig.Level = SecurityStrict
    /\ result.err = "failed to create workspace directory"
    /\ trace = <<Ev("validate", call.args[1].WorkDir, FALSE)>>
    /\ currentSecurityContext.Level = SecurityStrict
    /\ currentSecurityContext.Restrictions =
           << <<"explicit allow-listing required">>, <<"sensitive path detection">> >>

----------------------------------------------------------------------------
(* The work of a recursive copy.                                           *)

\* the directories CopyDirectory enumerated, in order
Enumerated(tr) ==
    SelectSeq(tr, LAMBDA e : e.ev = "readdir" /\ e.ok)

Missing(f, path) == ~Exists(f, path)

\* every entry of f is in g with the same content
Kept(f, g) == \A p \in DOMAIN f : p \in DOMAIN g /\ g[p] = f[p]

\* all that g has beyond f is directories strictly above the destination
OnlyParentsAdded(f, g, dest) ==
    \A p \in DOMAIN g \ DOMAIN f :
        /\ g[p] = "dir"
        /\ p # Resolve(g, dest)
        /\ Under(Resolve(g, Dir(dest)), p)

\* C30: when CopyFile(src, dest) passes validation but src does not exist,
\* it returns an error, creates no destination file and leaves src and any
\* existing dest untouched; the only change to the filesystem is the creation
\* of missing parent directories of dest.  When the validation of dest fails,
\* the filesystem is not changed at all.
C30_MissingSourceFrame ==
    [][call'.op = "CopyFile"
        => /\ (ValidatePath(currentSecurityContext, call'.args[2], <<>>) # Nil
                  => fs' = fs)
           /\ ((/\ ValidatePath(currentSecurityContext, call'.args[2], <<>>) = Nil
                /\ Missing(fs, call'.args[1]))
                  => /\ result'.err # Nil
                     /\ Kept(fs, fs')
                     /\ OnlyParentsAdded(fs, fs', call'.args[2]))]_vars

====
